---- MODULE Spec2Model ----
(***************************************************************************)
(* JUMBF (ISO/IEC 19566-5) box parser of the jumbo crate.                  *)
(*                                                                         *)
(* The decoders are pure functions of an immutable byte buffer.  A Rust    *)
(* slice (&[u8]) is modelled as a range [off, len] of the root buffer, so  *)
(* that "is a prefix of", "starts where the previous one ends" and the     *)
(* like are statements about addresses, as in the zero-copy code.          *)
(*                                                                         *)
(* Numbers: integers here are 32 bits wide, so numbers read from the input *)
(* saturate at 2^30 (see SAT); usize is taken to be 64 bits, so that       *)
(* `len as usize` keeps the value.  The sizes the builders compute are     *)
(* held as two digits of base 2^16 (see usize_of).                         *)
(***************************************************************************)
EXTENDS Integers, Sequences, FiniteSets, TLC

VARIABLES
    input,        \* the root byte buffer the caller holds
    op,           \* the operation last called
    depth_limit,  \* the depth limit it was called with
    arg,          \* the slice or box it was called on
    result,       \* what it returned
    root_box,     \* the box being built and written
    to_stream,    \* the sink the boxes are written to
    pbox_offset   \* the recorded offset of each PlaceholderDataBox

vars == <<input, op, depth_limit, arg, result, root_box, to_stream, pbox_offset>>

-----------------------------------------------------------------------------
(* Bounds of the input space.                                              *)

\* Most payload bytes of a generated data box.
MaxPayload == 3
\* Most bytes cut from the end of a generated input.
MaxCut == 2
\* Deepest nesting of generated super boxes below the root.
MaxNest == 2
\* Largest explicit depth limit handed to the super-box decoder.
MaxDepthLimit == 2

-----------------------------------------------------------------------------
(* Program constants.                                                      *)

REQUESTABLE == 1
HAS_LABEL == 2
HAS_ID == 4
HAS_HASH == 8
HAS_PRIVATE_BOX == 16

\* b"jumd"
DESCRIPTION_BOX_TYPE == <<106, 117, 109, 100>>
\* b"jumb"
SUPER_BOX_TYPE == <<106, 117, 109, 98>>

\* usize::MAX, the depth limit of the unbounded entry points.  Every level of
\* nesting consumes at least 33 input bytes, so any value above the input
\* length behaves as usize::MAX does; 2^31 - 1 is the largest integer here.
usize_MAX == 2147483647

-----------------------------------------------------------------------------
(* Slices.                                                                 *)

Slice(off, len) == [off |-> off, len |-> len]

\* The bytes a slice denotes.
Bytes(buf, s) == SubSeq(buf, s.off + 1, s.off + s.len)

\* The end address of a slice.
End(s) == s.off + s.len

\* Numbers read from the input saturate here: every value of at least 2^30
\* is held as 2^30.  No buffer of the model is that long, so the decoders
\* treat all such values alike (the payload cannot be there).
SAT == 2^30

\* Big-endian value of the n bytes at `off`: res = (res << 8) + byte.
RECURSIVE be_fold(_, _, _, _)
be_fold(buf, off, n, res) ==
    IF n = 0 THEN res
    ELSE be_fold(buf, off + 1, n - 1,
                 IF res >= SAT \div 256 THEN SAT ELSE res * 256 + buf[off + 1])

-----------------------------------------------------------------------------
(* Results.                                                                *)

\* Err(nom::Err::Error(kind(..))): n is the number an error carries
\* (InvalidBoxLength, Incomplete(Needed)), tbox the box type it carries.
Err(kind, n, tbox) == [ok |-> FALSE, kind |-> kind, n |-> n, tbox |-> tbox]

\* The `?` operator: an error is returned as it is, a value is passed on.
Try(r, K(_)) == IF ~r.ok THEN r ELSE K(r)

\* nom::number::complete::be_u32: Ok((rest, value)) or Error(Eof).
be_u32(buf, i) ==
    IF i.len < 4 THEN Err("NomError(Eof)", 0, <<>>)
    ELSE [ok |-> TRUE, v |-> be_fold(buf, i.off, 4, 0),
          rem |-> Slice(i.off + 4, i.len - 4)]

\* nom::number::complete::be_u64.
be_u64(buf, i) ==
    IF i.len < 8 THEN Err("NomError(Eof)", 0, <<>>)
    ELSE [ok |-> TRUE, v |-> be_fold(buf, i.off, 8, 0),
          rem |-> Slice(i.off + 8, i.len - 8)]

\* nom::number::complete::be_u8.
be_u8(buf, i) ==
    IF i.len < 1 THEN Err("NomError(Eof)", 0, <<>>)
    ELSE [ok |-> TRUE, v |-> buf[i.off + 1],
          rem |-> Slice(i.off + 1, i.len - 1)]

\* `len as u32` of the u64 that be_u64 reads at i: its low 32 bits, which are
\* its last four bytes.
u64_as_u32(buf, i) == be_fold(buf, i.off + 4, 4, 0)

-----------------------------------------------------------------------------
(* DataBox::from_slice                                                     *)

\* Mutant of DataBox_take_payload: a payload longer than what is left is cut
\* to what is left instead of failing.
DataBox_take_payload_truncating(original, tbox, i, len, original_len) ==
    IF i.len >= len
    THEN [ok |-> TRUE,
          rem |-> Slice(i.off + len, i.len - len),
          box |-> [tbox |-> tbox,
                   data |-> Slice(i.off, len),
                   original |-> Slice(original.off, original_len)]]
    ELSE [ok |-> TRUE,
          rem |-> Slice(i.off + i.len, 0),
          box |-> [tbox |-> tbox,
                   data |-> Slice(i.off, i.len),
                   original |-> Slice(original.off, original.len)]]

\* The tail of from_slice: take `len` payload bytes from i, or Incomplete.
DataBox_take_payload(original, tbox, i, len, original_len) ==
    IF i.len >= len
    THEN [ok |-> TRUE,
          rem |-> Slice(i.off + len, i.len - len),
          box |-> [tbox |-> tbox,
                   data |-> Slice(i.off, len),
                   original |-> Slice(original.off, original_len)]]
    ELSE Err("Incomplete", len, <<>>)

\* Mutant of DataBox_resolve_length: the extended form is taken to have the
\* 8-byte header.
DataBox_resolve_length_xl_header_8(buf, original, len, tbox, i) ==
    CASE len = 0 -> DataBox_take_payload(original, tbox, i, i.len, original.len)
      [] len = 1 ->
           Try(be_u64(buf, i), LAMBDA x :
               IF x.v >= 16
               THEN DataBox_take_payload(original, tbox, x.rem, x.v - 8, x.v)
               ELSE Err("InvalidBoxLength", u64_as_u32(buf, i), <<>>))
      [] len \in 2..7 -> Err("InvalidBoxLength", len, <<>>)
      [] OTHER -> DataBox_take_payload(original, tbox, i, len - 8, len)

\* Mutant of DataBox_resolve_length: a length that cannot cover the header is
\* clamped to an empty payload.
DataBox_resolve_length_clamping(buf, original, len, tbox, i) ==
    CASE len = 0 -> DataBox_take_payload(original, tbox, i, i.len, original.len)
      [] len = 1 ->
           Try(be_u64(buf, i), LAMBDA x :
               IF x.v >= 16
               THEN DataBox_take_payload(original, tbox, x.rem, x.v - 16, x.v)
               ELSE DataBox_take_payload(original, tbox, x.rem, 0, 16))
      [] len \in 2..7 -> DataBox_take_payload(original, tbox, i, 0, 8)
      [] OTHER -> DataBox_take_payload(original, tbox, i, len - 8, len)

\* The `match len` of from_slice, after the length and the type were read.
DataBox_resolve_length(buf, original, len, tbox, i) ==
    CASE len = 0 -> DataBox_take_payload(original, tbox, i, i.len, original.len)
      [] len = 1 ->
           Try(be_u64(buf, i), LAMBDA x :
               IF x.v >= 16
               THEN DataBox_take_payload(original, tbox, x.rem, x.v - 16, x.v)
               ELSE Err("InvalidBoxLength", u64_as_u32(buf, i), <<>>))
      [] len \in 2..7 -> Err("InvalidBoxLength", len, <<>>)
      [] OTHER -> DataBox_take_payload(original, tbox, i, len - 8, len)

DataBox_from_slice(buf, original) ==
    Try(be_u32(buf, original), LAMBDA l :
        IF l.rem.len < 4 THEN Err("Incomplete", 4, <<>>)
        ELSE DataBox_resolve_length(buf, original, l.v,
                                    Bytes(buf, Slice(l.rem.off, 4)),
                                    Slice(l.rem.off + 4, l.rem.len - 4)))

-----------------------------------------------------------------------------
(* DescriptionBox::from_box                                                *)

None == [some |-> FALSE]
Some(v) == [some |-> TRUE, v |-> v]

\* toggles & mask != 0, for a one-bit mask.
toggle_set(toggles, mask) == (toggles \div mask) % 2 = 1

\* Offset (from the start of i) of the first zero byte of i, or -1.
RECURSIVE find_null(_, _, _)
find_null(buf, i, k) ==
    IF k >= i.len THEN -1
    ELSE IF buf[i.off + k + 1] = 0 THEN k
    ELSE find_null(buf, i, k + 1)

\* take_split(index): the bytes before `index` and the rest.
take_split(i, k) ==
    IF k < 0 THEN Err("NomError(TakeUntil)", 0, <<>>)
    ELSE [ok |-> TRUE, v |-> Slice(i.off, k), rem |-> Slice(i.off + k, i.len - k)]

\* nom::bytes::complete::take_until("\0"): the bytes before the first zero
\* byte and the rest, which starts at that zero byte; Error(TakeUntil) when
\* there is none.
take_until_null(buf, i) == take_split(i, find_null(buf, i, 0))

IsCont(b) == b >= 128 /\ b <= 191

\* std::str::from_utf8 succeeds on s (from position k on): well-formed UTF-8,
\* no overlong forms, no surrogates, nothing above U+10FFFF.
RECURSIVE utf8_valid(_, _)
utf8_valid(s, k) ==
    IF k > Len(s) THEN TRUE
    ELSE LET b == s[k]
             c(j) == k + j <= Len(s) /\ IsCont(s[k + j])
             rng(j, lo, hi) == k + j <= Len(s) /\ s[k + j] >= lo /\ s[k + j] <= hi
         IN
         CASE b <= 127 -> utf8_valid(s, k + 1)
           [] b >= 194 /\ b <= 223 -> c(1) /\ utf8_valid(s, k + 2)
           [] b = 224 -> rng(1, 160, 191) /\ c(2) /\ utf8_valid(s, k + 3)
           [] (b >= 225 /\ b <= 236) \/ b = 238 \/ b = 239 ->
                c(1) /\ c(2) /\ utf8_valid(s, k + 3)
           [] b = 237 -> rng(1, 128, 159) /\ c(2) /\ utf8_valid(s, k + 3)
           [] b = 240 -> rng(1, 144, 191) /\ c(2) /\ c(3) /\ utf8_valid(s, k + 4)
           [] b >= 241 /\ b <= 243 -> c(1) /\ c(2) /\ c(3) /\ utf8_valid(s, k + 4)
           [] b = 244 -> rng(1, 128, 143) /\ c(2) /\ c(3) /\ utf8_valid(s, k + 4)
           [] OTHER -> FALSE

\* The UUID: the first 16 bytes of the payload.
desc_read_uuid(data) ==
    IF data.len >= 16
    THEN [ok |-> TRUE, v |-> Slice(data.off, 16),
          rem |-> Slice(data.off + 16, data.len - 16)]
    ELSE Err("Incomplete", 16, <<>>)

\* Toggle bit 1: the label, up to and without the next zero byte.
desc_read_label(buf, toggles, i) ==
    IF toggle_set(toggles, HAS_LABEL)
    THEN Try(take_until_null(buf, i), LAMBDA t :
             IF ~utf8_valid(Bytes(buf, t.v), 1) THEN Err("Utf8Error", 0, <<>>)
             ELSE [ok |-> TRUE, v |-> Some(t.v),
                   rem |-> Slice(t.rem.off + 1, t.rem.len - 1)])
    ELSE [ok |-> TRUE, v |-> None, rem |-> i]

\* Mutant of desc_read_id: the id is read when the has-hash bit is set.
desc_read_id_on_hash_bit(buf, toggles, i) ==
    IF toggle_set(toggles, HAS_HASH)
    THEN Try(be_u32(buf, i), LAMBDA r :
             [ok |-> TRUE, v |-> Some(r.v), rem |-> r.rem])
    ELSE [ok |-> TRUE, v |-> None, rem |-> i]

\* Toggle bit 2: the 32-bit id.
desc_read_id(buf, toggles, i) ==
    IF toggle_set(toggles, HAS_ID)
    THEN Try(be_u32(buf, i), LAMBDA r :
             [ok |-> TRUE, v |-> Some(r.v), rem |-> r.rem])
    ELSE [ok |-> TRUE, v |-> None, rem |-> i]

\* Mutant of desc_read_hash: a hash that is not all there is left out.
desc_read_hash_defaulting(toggles, i) ==
    IF toggle_set(toggles, HAS_HASH) /\ i.len >= 32
    THEN [ok |-> TRUE, v |-> Some(Slice(i.off, 32)),
          rem |-> Slice(i.off + 32, i.len - 32)]
    ELSE [ok |-> TRUE, v |-> None, rem |-> i]

\* Toggle bit 3: the 32-byte hash.
desc_read_hash(toggles, i) ==
    IF toggle_set(toggles, HAS_HASH)
    THEN IF i.len >= 32
         THEN [ok |-> TRUE, v |-> Some(Slice(i.off, 32)),
               rem |-> Slice(i.off + 32, i.len - 32)]
         ELSE Err("Incomplete", 32, <<>>)
    ELSE [ok |-> TRUE, v |-> None, rem |-> i]

\* Toggle bit 4: the private box.
desc_read_private(buf, toggles, i) ==
    IF toggle_set(toggles, HAS_PRIVATE_BOX)
    THEN Try(DataBox_from_slice(buf, i), LAMBDA r :
             [ok |-> TRUE, v |-> Some(r.box), rem |-> r.rem])
    ELSE [ok |-> TRUE, v |-> None, rem |-> i]

DescriptionBox_from_box(buf, boxx) ==
    IF boxx.tbox # DESCRIPTION_BOX_TYPE
    THEN Err("InvalidDescriptionBoxType", 0, boxx.tbox)
    ELSE
    Try(desc_read_uuid(boxx.data), LAMBDA uuid :
    Try(be_u8(buf, uuid.rem), LAMBDA toggles :
    Try(desc_read_label(buf, toggles.v, toggles.rem), LAMBDA label :
    Try(desc_read_id(buf, toggles.v, label.rem), LAMBDA id :
    Try(desc_read_hash(toggles.v, id.rem), LAMBDA hash :
    Try(desc_read_private(buf, toggles.v, hash.rem), LAMBDA private :
    [ok |-> TRUE,
     rem |-> private.rem,
     desc |-> [uuid |-> uuid.v,
               label |-> label.v,
               requestable |-> toggle_set(toggles.v, REQUESTABLE),
               id |-> id.v,
               hash |-> hash.v,
               private |-> private.v,
               original |-> boxx.original]]))))))

\* DescriptionBox::from_slice: one box, read as a description box; the
\* remainder is what follows the box.
DescriptionBox_from_slice(buf, i) ==
    Try(DataBox_from_slice(buf, i), LAMBDA b :
    Try(DescriptionBox_from_box(buf, b.box), LAMBDA d :
    [ok |-> TRUE, rem |-> b.rem, desc |-> d.desc]))

\* DataBox::from_source and DescriptionBox::from_source, the entry points the
\* super-box decoder calls: the box decoder and the description-box decoder
\* over a Source.  Over a byte slice they read what from_slice reads.
DataBox_from_source(buf, original) == DataBox_from_slice(buf, original)

DescriptionBox_from_source(buf, i) == DescriptionBox_from_slice(buf, i)

-----------------------------------------------------------------------------
(* Source for &[u8]                                                        *)

\* <&[u8] as Source>::split_at: ReadPastEndOfSlice when len > self.len().
split_at(s, len) ==
    IF len > s.len
    THEN [ok |-> FALSE, kind |-> "ReadPastEndOfSlice", wanted |-> len, have |-> s.len]
    ELSE [ok |-> TRUE, first |-> Slice(s.off, len),
          rem |-> Slice(s.off + len, s.len - len)]

\* Mutant of split_at_null_loop: the zero byte stays at the end of the first
\* part.
RECURSIVE split_at_null_loop_keeps_null(_, _, _)
split_at_null_loop_keeps_null(buf, s, i) ==
    IF i >= s.len
    THEN [ok |-> FALSE, kind |-> "ReadPastEndOfSlice", wanted |-> 1, have |-> 0]
    ELSE IF buf[s.off + i + 1] = 0
         THEN Try(split_at(s, i + 1), LAMBDA sp :
                  [ok |-> TRUE, first |-> sp.first, rem |-> sp.rem])
         ELSE split_at_null_loop_keeps_null(buf, s, i + 1)

\* The loop of split_at_null: i counts the bytes seen; at the first zero byte
\* the source is split after it and the zero dropped from the first part.
RECURSIVE split_at_null_loop(_, _, _)
split_at_null_loop(buf, s, i) ==
    IF i >= s.len
    THEN [ok |-> FALSE, kind |-> "ReadPastEndOfSlice", wanted |-> 1, have |-> 0]
    ELSE IF buf[s.off + i + 1] = 0
         THEN Try(split_at(s, i + 1), LAMBDA sp :
                  [ok |-> TRUE,
                   first |-> Slice(sp.first.off, sp.first.len - 1),
                   rem |-> sp.rem])
         ELSE split_at_null_loop(buf, s, i + 1)

split_at_null(buf, s) == split_at_null_loop(buf, s, 0)

-----------------------------------------------------------------------------
(* SuperBox                                                                *)

\* Mutant of boxes_from_source_loop: the loop ends after the first box.
boxes_from_source_loop_first_only(buf, i, acc) ==
    IF i.len > 0
    THEN Try(DataBox_from_source(buf, i), LAMBDA r :
             [ok |-> TRUE, boxes |-> Append(acc, r.box), rem |-> r.rem])
    ELSE [ok |-> TRUE, boxes |-> acc, rem |-> i]

\* boxes_from_source: boxes are read until the source is empty.
RECURSIVE boxes_from_source_loop(_, _, _)
boxes_from_source_loop(buf, i, acc) ==
    IF i.len > 0
    THEN Try(DataBox_from_source(buf, i), LAMBDA r :
             boxes_from_source_loop(buf, r.rem, Append(acc, r.box)))
    ELSE [ok |-> TRUE, boxes |-> acc, rem |-> i]

boxes_from_source(buf, i) == boxes_from_source_loop(buf, i, <<>>)

\* Mutant of child_is_super_box: the depth limit is not looked at.
child_is_super_box_ignoring_limit(tbox, limit) == tbox = SUPER_BOX_TYPE

\* Mutant of child_is_super_box: a limit of 0 lets one more level be parsed.
child_is_super_box_at_zero(tbox, limit) == tbox = SUPER_BOX_TYPE /\ limit >= 0

\* The test of the closure over the child boxes: parse this one as a super box?
child_is_super_box(tbox, limit) == tbox = SUPER_BOX_TYPE /\ limit > 0

NotParsed == [ok |-> FALSE, kind |-> "none", n |-> 0, tbox |-> <<>>]

ChildSuperBox(sbox) == [variant |-> "SuperBox", sbox |-> sbox]
ChildDataBox(dbox) == [variant |-> "DataBox", dbox |-> dbox]

\* Mutant of map_child_box: a 'jumb' box met when the depth limit is used up
\* is an error.
map_child_box_refusing(d, limit, parsed) ==
    IF d.tbox = SUPER_BOX_TYPE /\ limit = 0
    THEN Err("InvalidSuperBoxType", 0, d.tbox)
    ELSE IF child_is_super_box(d.tbox, limit)
    THEN Try(parsed, LAMBDA r : [ok |-> TRUE, child |-> ChildSuperBox(r.sbox)])
    ELSE [ok |-> TRUE, child |-> ChildDataBox(d)]

\* The closure mapped over the boxes: d is parsed as a super box (`parsed`
\* is that parse) or kept as it is.
map_child_box(d, limit, parsed) ==
    IF child_is_super_box(d.tbox, limit)
    THEN Try(parsed, LAMBDA r : [ok |-> TRUE, child |-> ChildSuperBox(r.sbox)])
    ELSE [ok |-> TRUE, child |-> ChildDataBox(d)]

\* The indices of the mapped children that are errors.
failed_children(mapped) == {k \in 1..Len(mapped) : ~mapped[k].ok}

\* The children of those mapped that are no errors, in order.
RECURSIVE children_parsed(_, _)
children_parsed(mapped, k) ==
    IF k > Len(mapped) THEN <<>>
    ELSE (IF mapped[k].ok THEN <<mapped[k].child>> ELSE <<>>)
         \o children_parsed(mapped, k + 1)

\* Mutant of collect_child_boxes: a child that is an error is left out.
collect_child_boxes_skipping(mapped, failed) ==
    [ok |-> TRUE, child_boxes |-> children_parsed(mapped, 1)]

\* .collect::<Result<Vec<_>, _>>() of the mapped children: the children in
\* order, or the error of the first child that has one.
collect_child_boxes(mapped, failed) ==
    IF failed = {}
    THEN [ok |-> TRUE, child_boxes |-> [k \in 1..Len(mapped) |-> mapped[k].child]]
    ELSE mapped[CHOOSE k \in failed : \A j \in failed : k <= j]

\* Mutant of SuperBox_read_boxes: the type of the box is not looked at.
SuperBox_read_boxes_any_type(buf, data_box) ==
    Try(split_at(data_box.data, data_box.data.len), LAMBDA i :
    Try(DescriptionBox_from_source(buf, i.first), LAMBDA desc :
    Try(boxes_from_source(buf, desc.rem), LAMBDA boxes :
    [ok |-> TRUE, desc |-> desc.desc, boxes |-> boxes.boxes])))

\* The first half of from_data_box_with_depth_limit: the type check, the
\* description box and the boxes that follow it, not yet classified.
SuperBox_read_boxes(buf, data_box) ==
    IF data_box.tbox # SUPER_BOX_TYPE
    THEN Err("InvalidSuperBoxType", 0, data_box.tbox)
    ELSE
    Try(split_at(data_box.data, data_box.data.len), LAMBDA i :
    Try(DescriptionBox_from_source(buf, i.first), LAMBDA desc :
    Try(boxes_from_source(buf, desc.rem), LAMBDA boxes :
    [ok |-> TRUE, desc |-> desc.desc, boxes |-> boxes.boxes])))

\* The second half: the collected children and the struct.
SuperBox_assemble(data_box, desc, mapped) ==
    Try(collect_child_boxes(mapped, failed_children(mapped)), LAMBDA children :
    Try(split_at(data_box.original, data_box.original.len), LAMBDA original :
    [ok |-> TRUE,
     sbox |-> [desc |-> desc,
               child_boxes |-> children.child_boxes,
               original |-> original.first]]))

RECURSIVE SuperBox_from_data_box_with_depth_limit(_, _, _)
SuperBox_from_data_box_with_depth_limit(buf, data_box, limit) ==
    Try(SuperBox_read_boxes(buf, data_box), LAMBDA head :
        SuperBox_assemble(data_box, head.desc,
            [k \in 1..Len(head.boxes) |->
                map_child_box(head.boxes[k], limit,
                    IF child_is_super_box(head.boxes[k].tbox, limit)
                    THEN SuperBox_from_data_box_with_depth_limit(
                             buf, head.boxes[k], limit - 1)
                    ELSE NotParsed)]))

\* Mutant of SuperBox_from_data_box: the children are not parsed further.
SuperBox_from_data_box_one_level(buf, data_box) ==
    SuperBox_from_data_box_with_depth_limit(buf, data_box, 0)

SuperBox_from_data_box(buf, data_box) ==
    SuperBox_from_data_box_with_depth_limit(buf, data_box, usize_MAX)

SuperBox_from_source_with_depth_limit(buf, original, limit) ==
    Try(DataBox_from_source(buf, original), LAMBDA b :
    Try(SuperBox_from_data_box_with_depth_limit(buf, b.box, limit), LAMBDA r :
    [ok |-> TRUE, sbox |-> r.sbox, rem |-> b.rem]))

SuperBox_from_source(buf, original) ==
    SuperBox_from_source_with_depth_limit(buf, original, usize_MAX)

\* '/'
SLASH == 47

\* The index of the first '/' of label at or after k, or 0.
RECURSIVE find_slash(_, _)
find_slash(label, k) ==
    IF k > Len(label) THEN 0
    ELSE IF label[k] = SLASH THEN k
    ELSE find_slash(label, k + 1)

\* The split of a label at index k.
split_at_slash(label, k) ==
    IF k = 0 THEN [label |-> label, suffix |-> None]
    ELSE [label |-> SubSeq(label, 1, k - 1),
          suffix |-> Some(SubSeq(label, k + 1, Len(label)))]

\* Mutant of split_once_slash: the label is never split.
split_once_slash_never(label) == [label |-> label, suffix |-> None]

\* label.split_once('/'): (label, Some(suffix)) or (label, None).
split_once_slash(label) == split_at_slash(label, find_slash(label, 1))

\* Mutant of is_matching_child: the requestable flag is not looked at.
is_matching_child_any_requestable(buf, child_box, label) ==
    /\ child_box.variant = "SuperBox"
    /\ child_box.sbox.desc.label.some
    /\ Bytes(buf, child_box.sbox.desc.label.v) = label

\* The filter of find_by_label: a super box with this label that is
\* requestable.
is_matching_child(buf, child_box, label) ==
    /\ child_box.variant = "SuperBox"
    /\ child_box.sbox.desc.label.some
    /\ Bytes(buf, child_box.sbox.desc.label.v) = label
    /\ child_box.sbox.desc.requestable

matching_children(buf, sbox, label) ==
    SelectSeq(sbox.child_boxes, LAMBDA c : is_matching_child(buf, c, label))

\* Mutant of unique_match: the first match is taken, however many there are.
unique_match_first(matching) ==
    IF Len(matching) >= 1 THEN Some(matching[1].sbox) ELSE None

\* The end of find_by_label: the first match, if it is the only one.
unique_match(matching) ==
    IF Len(matching) >= 1
    THEN IF Len(matching) = 1 THEN Some(matching[1].sbox) ELSE None
    ELSE None

RECURSIVE SuperBox_find_by_label(_, _, _)

\* find_by_label after the split: the match is returned, or searched for the
\* suffix.
find_by_label_descend(buf, found, suffix) ==
    IF found.some
    THEN IF suffix.some
         THEN SuperBox_find_by_label(buf, found.v, suffix.v)
         ELSE found
    ELSE None

find_by_label_split(buf, sbox, sp) ==
    find_by_label_descend(
        buf, unique_match(matching_children(buf, sbox, sp.label)), sp.suffix)

SuperBox_find_by_label(buf, sbox, label) ==
    find_by_label_split(buf, sbox, split_once_slash(label))

-----------------------------------------------------------------------------
(* The builders.  A sink is a std::io::Cursor<Vec<u8>> (bytes and a write  *)
(* position) or the CountingSink of the size pass.  The recorded offset of *)
(* a PlaceholderDataBox is a RefCell: the placeholders carry an identity   *)
(* and `off` maps each identity to its cell.  Every write returns the sink *)
(* and the cells as it leaves them, also when it fails half way.           *)

\* A usize of the builders (64 bits) is held as two digits of base 2^16,
\* hi * 2^16 + lo, so that sizes around 2^32 are what they are in the code.
usize_of(n) == [hi |-> n \div 65536, lo |-> n % 65536]

\* a + b
usize_add(a, b) ==
    [hi |-> a.hi + b.hi + (a.lo + b.lo) \div 65536, lo |-> (a.lo + b.lo) % 65536]

\* a > b
usize_gt(a, b) == a.hi > b.hi \/ (a.hi = b.hi /\ a.lo > b.lo)

\* A size as a number: for sizes of things that are there, which are small.
usize_as_int(a) == a.hi * 65536 + a.lo

\* 0xfffffff7
MAX_32BIT_PAYLOAD_SIZE == [hi |-> 65535, lo |-> 65527]

Cursor(bytes, pos) == [kind |-> "Cursor", bytes |-> bytes, pos |-> pos, count |-> 0]
CountingSink(count) == [kind |-> "CountingSink", bytes |-> <<>>, pos |-> 0, count |-> count]

IoOk(v, s, off) == [ok |-> TRUE, kind |-> "", v |-> v, s |-> s, off |-> off]
IoErr(kind, s, off) == [ok |-> FALSE, kind |-> kind, v |-> 0, s |-> s, off |-> off]

\* Vec<u8> after writing buf at position pos (pos is never beyond the end).
vec_write(bytes, pos, buf) ==
    [k \in 1..(IF pos + Len(buf) > Len(bytes) THEN pos + Len(buf) ELSE Len(bytes)) |->
        IF k > pos /\ k <= pos + Len(buf) THEN buf[k - pos] ELSE bytes[k]]

write_all(s, buf, off) ==
    IF s.kind = "CountingSink"
    THEN IoOk(0, [s EXCEPT !.count = @ + Len(buf)], off)
    ELSE IoOk(0, [s EXCEPT !.bytes = vec_write(@, s.pos, buf),
                           !.pos = @ + Len(buf)], off)

\* Mutant of stream_position: the counting sink tells its count.
stream_position_counting(s, off) ==
    IF s.kind = "CountingSink" THEN IoOk(s.count, s, off) ELSE IoOk(s.pos, s, off)

\* Seek::stream_position is seek(SeekFrom::Current(0)).
stream_position(s, off) ==
    IF s.kind = "CountingSink"
    THEN IoErr("shouldn't need to seek while calculating payload size", s, off)
    ELSE IoOk(s.pos, s, off)

seek_start(s, offset, off) ==
    IF s.kind = "CountingSink"
    THEN IoErr("shouldn't need to seek while calculating payload size", s, off)
    ELSE IoOk(offset, [s EXCEPT !.pos = offset], off)

\* size_slice: [(jumbf_size >> 24) as u8, (jumbf_size >> 16) as u8,
\* (jumbf_size >> 8) as u8, jumbf_size as u8], the low 32 bits of the usize.
size_slice(jumbf_size_) ==
    <<(jumbf_size_.hi \div 256) % 256, jumbf_size_.hi % 256,
      jumbf_size_.lo \div 256, jumbf_size_.lo % 256>>

\* [(v >> 24) as u8, (v >> 16) as u8, (v >> 8) as u8, v as u8]
be_bytes_u32(v) ==
    <<(v \div 16777216) % 256, (v \div 65536) % 256, (v \div 256) % 256, v % 256>>

zeros(n) == [k \in 1..n |-> 0]

\* --- the builder values ---

DataBoxBuilder_from_owned(tbox, data) ==
    [kind |-> "DataBoxBuilder", tbox |-> tbox, data |-> data]

\* `id` names the RefCell of this placeholder.
PlaceholderDataBox_new(id, tbox, size) ==
    [kind |-> "PlaceholderDataBox", id |-> id, tbox |-> tbox, size |-> size]

PlaceholderDataBox_offset(pbox, off) == off[pbox.id]

DescriptionBoxBuilder_new(uuid) ==
    [kind |-> "DescriptionBoxBuilder", uuid |-> uuid, label |-> None,
     requestable |-> FALSE, id |-> None, hash |-> None, private |-> None]

SuperBoxBuilder_new(uuid) ==
    [kind |-> "SuperBoxBuilder", desc |-> DescriptionBoxBuilder_new(uuid),
     child_boxes |-> <<>>]

\* A String is held as its UTF-8 bytes.
set_label(sbox, label) ==
    [sbox EXCEPT !.desc.label = Some(label), !.desc.requestable = TRUE]

\* Mutant of set_non_requestable_label: `requestable` stays as it is.
set_non_requestable_label_keeping(sbox, label) ==
    [sbox EXCEPT !.desc.label = Some(label)]

set_non_requestable_label(sbox, label) ==
    [sbox EXCEPT !.desc.label = Some(label), !.desc.requestable = FALSE]

set_id(sbox, id) == [sbox EXCEPT !.desc.id = Some(id)]

set_sha256_hash(sbox, hash) == [sbox EXCEPT !.desc.hash = Some(hash)]

set_private_box(sbox, private) == [sbox EXCEPT !.desc.private = Some(private)]

OwnedBox(boxx) == [variant |-> "OwnedBox", boxx |-> boxx]
BorrowedBox(boxx) == [variant |-> "BorrowedBox", boxx |-> boxx]
as_ref(child) == child.boxx

add_child_box(sbox, boxx) ==
    [sbox EXCEPT !.child_boxes = Append(@, OwnedBox(boxx))]

add_borrowed_child_box(sbox, boxx) ==
    [sbox EXCEPT !.child_boxes = Append(@, BorrowedBox(boxx))]

\* --- ToBox ---

box_type(boxx) ==
    IF boxx.kind = "SuperBoxBuilder" THEN SUPER_BOX_TYPE
    ELSE IF boxx.kind = "DescriptionBoxBuilder" THEN DESCRIPTION_BOX_TYPE
    ELSE boxx.tbox

\* Mutant of jumbf_size_from_payload_size: every size is taken.
jumbf_size_from_payload_size_any(size, s, off) ==
    IoOk(usize_add(size, usize_of(8)), s, off)

\* unimplemented!() panics with "not implemented"; the panic ends the call
\* and every call around it, as an error passed up does.
jumbf_size_from_payload_size(size, s, off) ==
    IF ~usize_gt(size, MAX_32BIT_PAYLOAD_SIZE)
    THEN IoOk(usize_add(size, usize_of(8)), s, off)
    ELSE IoErr("not implemented", s, off)

desc_toggles(desc) ==
    (IF desc.requestable THEN REQUESTABLE ELSE 0)
    + (IF desc.label.some THEN HAS_LABEL ELSE 0)
    + (IF desc.id.some THEN HAS_ID ELSE 0)
    + (IF desc.hash.some THEN HAS_HASH ELSE 0)
    + (IF desc.private.some THEN HAS_PRIVATE_BOX ELSE 0)

RECURSIVE payload_size(_, _, _)
RECURSIVE write_payload(_, _, _)
RECURSIVE write_jumbf(_, _, _)
RECURSIVE sum_child_sizes(_, _, _, _, _)
RECURSIVE write_child_boxes(_, _, _, _)

\* jumbf_size: the size pass leaves the caller's sink s alone.
jumbf_size(boxx, s, off) ==
    Try(payload_size(boxx, s, off),
        LAMBDA r : jumbf_size_from_payload_size(r.v, s, r.off))

\* for child in &self.child_boxes { size += jumbf_size(child.as_ref())?; }
sum_child_sizes(child_boxes, k, size, s, off) ==
    IF k > Len(child_boxes) THEN IoOk(size, s, off)
    ELSE Try(jumbf_size(as_ref(child_boxes[k]), s, off),
             LAMBDA r : sum_child_sizes(child_boxes, k + 1, usize_add(size, r.v),
                                        s, r.off))

\* The default payload_size: a throwaway write to a CountingSink.  What the
\* caller gets is the count, or the error; the caller's sink is not involved.
counted_payload_size(counted, s) ==
    IF counted.ok THEN IoOk(usize_of(counted.s.count), s, counted.off)
    ELSE IoErr(counted.kind, s, counted.off)

payload_size(boxx, s, off) ==
    IF boxx.kind = "DataBoxBuilder" THEN IoOk(usize_of(Len(boxx.data)), s, off)
    ELSE IF boxx.kind = "PlaceholderDataBox" THEN IoOk(boxx.size, s, off)
    ELSE IF boxx.kind = "SuperBoxBuilder"
    THEN Try(jumbf_size(boxx.desc, s, off),
             LAMBDA r : sum_child_sizes(boxx.child_boxes, 1, r.v, s, r.off))
    ELSE counted_payload_size(write_payload(boxx, CountingSink(0), off), s)

\* Mutant of write_child_boxes: the first box written is the last one added.
write_child_boxes_reversed(child_boxes, k, s, off) ==
    IF k > Len(child_boxes) THEN IoOk(0, s, off)
    ELSE Try(write_jumbf(as_ref(child_boxes[Len(child_boxes) + 1 - k]), s, off),
             LAMBDA r : write_child_boxes(child_boxes, k + 1, r.s, r.off))

\* for child in &self.child_boxes { write_jumbf(child.as_ref(), to_stream)?; }
write_child_boxes(child_boxes, k, s, off) ==
    IF k > Len(child_boxes) THEN IoOk(0, s, off)
    ELSE Try(write_jumbf(as_ref(child_boxes[k]), s, off),
             LAMBDA r : write_child_boxes(child_boxes, k + 1, r.s, r.off))

desc_write_private(desc, s, off) ==
    IF desc.private.some THEN write_jumbf(desc.private.v, s, off)
    ELSE IoOk(0, s, off)

desc_write_hash(desc, s, off) ==
    Try(IF desc.hash.some THEN write_all(s, desc.hash.v, off) ELSE IoOk(0, s, off),
        LAMBDA r : desc_write_private(desc, r.s, r.off))

desc_write_id(desc, s, off) ==
    Try(IF desc.id.some THEN write_all(s, be_bytes_u32(desc.id.v), off)
        ELSE IoOk(0, s, off),
        LAMBDA r : desc_write_hash(desc, r.s, r.off))

desc_write_label(desc, s, off) ==
    Try(IF desc.label.some THEN write_all(s, desc.label.v \o <<0>>, off)
        ELSE IoOk(0, s, off),
        LAMBDA r : desc_write_id(desc, r.s, r.off))

DescriptionBoxBuilder_write_payload(desc, s, off) ==
    Try(write_all(s, desc.uuid, off),
        LAMBDA u : Try(write_all(u.s, <<desc_toggles(desc)>>, u.off),
                       LAMBDA t : desc_write_label(desc, t.s, t.off)))

\* Mutant of placeholder_record_offset: a stream position of 0 is taken too.
placeholder_record_offset_unchecked(pbox, offset, s, off) ==
    write_all(s, zeros(usize_as_int(pbox.size)), [off EXCEPT ![pbox.id] = Some(offset)])

\* Mutant of placeholder_record_offset: the offset is where the header begins.
placeholder_record_offset_of_header(pbox, offset, s, off) ==
    IF offset = 0
    THEN IoErr("placeholder stream should have some data already", s, off)
    ELSE write_all(s, zeros(usize_as_int(pbox.size)), [off EXCEPT ![pbox.id] = Some(offset - 8)])

\* The offset is replaced on every call that gets past the position test.
placeholder_record_offset(pbox, offset, s, off) ==
    IF offset = 0
    THEN IoErr("placeholder stream should have some data already", s, off)
    ELSE write_all(s, zeros(usize_as_int(pbox.size)), [off EXCEPT ![pbox.id] = Some(offset)])

PlaceholderDataBox_write_payload(pbox, s, off) ==
    Try(stream_position(s, off),
        LAMBDA p : placeholder_record_offset(pbox, p.v, s, off))

write_payload(boxx, s, off) ==
    IF boxx.kind = "DataBoxBuilder" THEN write_all(s, boxx.data, off)
    ELSE IF boxx.kind = "PlaceholderDataBox"
    THEN PlaceholderDataBox_write_payload(boxx, s, off)
    ELSE IF boxx.kind = "SuperBoxBuilder"
    THEN Try(write_jumbf(boxx.desc, s, off),
             LAMBDA r : write_child_boxes(boxx.child_boxes, 1, r.s, r.off))
    ELSE DescriptionBoxBuilder_write_payload(boxx, s, off)

\* Mutant of write_jumbf_sized: the box type goes before the size.
write_jumbf_sized_type_first(boxx, jumbf_size_, s, off) ==
    Try(write_all(s, box_type(boxx), off),
        LAMBDA t : Try(write_all(t.s, size_slice(jumbf_size_), t.off),
                       LAMBDA w : write_payload(boxx, w.s, w.off)))

\* The size slice, the box type, the payload.
write_jumbf_sized(boxx, jumbf_size_, s, off) ==
    Try(write_all(s, size_slice(jumbf_size_), off),
        LAMBDA w : Try(write_all(w.s, box_type(boxx), w.off),
                       LAMBDA t : write_payload(boxx, t.s, t.off)))

write_jumbf(boxx, s, off) ==
    Try(jumbf_size(boxx, s, off),
        LAMBDA r : write_jumbf_sized(boxx, r.v, s, r.off))

\* Mutant of replace_payload_at: the payload is written where the sink is.
replace_payload_at_position(pbox, s, payload, off) ==
    IF off[pbox.id].some
    THEN write_all(s, payload, off)
    ELSE IoErr("replace_payload: no offset recorded; call write_jumbf() first", s, off)

\* Mutant of replace_payload_at: the sink is put back where it was.
replace_payload_at_restoring(pbox, s, payload, off) ==
    IF off[pbox.id].some
    THEN Try(seek_start(s, off[pbox.id].v, off),
             LAMBDA r : Try(write_all(r.s, payload, off),
                            LAMBDA w : seek_start(w.s, s.pos, off)))
    ELSE IoErr("replace_payload: no offset recorded; call write_jumbf() first", s, off)

\* if let Some(offset) = *offset { seek; write_all } else { Err }
replace_payload_at(pbox, s, payload, off) ==
    IF off[pbox.id].some
    THEN Try(seek_start(s, off[pbox.id].v, off),
             LAMBDA r : write_all(r.s, payload, off))
    ELSE IoErr("replace_payload: no offset recorded; call write_jumbf() first", s, off)

\* Mutant of PlaceholderDataBox_replace_payload: the size is not compared.
replace_payload_unchecked(pbox, s, payload, off) ==
    replace_payload_at(pbox, s, payload, off)

PlaceholderDataBox_replace_payload(pbox, s, payload, off) ==
    IF usize_gt(usize_of(Len(payload)), pbox.size)
    THEN IoErr("replace_payload: payload is larger than reserved capacity", s, off)
    ELSE replace_payload_at(pbox, s, payload, off)

-----------------------------------------------------------------------------
(* Inputs.                                                                 *)

\* The four big-endian bytes of v.
be32_bytes(v) ==
    <<(v \div 16777216) % 256, (v \div 65536) % 256, (v \div 256) % 256, v % 256>>

\* A payload of n bytes with a zero byte in second place.
Payload(n) == [k \in 1..n |-> IF k = 2 THEN 0 ELSE 64 + k]

\* A box with the 8-byte header, its length field set to L whatever follows.
RawBox(L, tbox, payload) == be32_bytes(L) \o tbox \o payload

\* A box with the 16-byte header (length field 1, extended length X).
RawXLBox(X, tbox, payload) ==
    <<0, 0, 0, 1>> \o tbox \o <<0, 0, 0, 0>> \o be32_bytes(X) \o payload

\* Every prefix of s.
Prefixes(s) == {SubSeq(s, 1, n) : n \in 0..Len(s)}

\* s without its last k bytes.
CutEnd(s, k) == SubSeq(s, 1, Len(s) - k)

TYPE_abcd == <<97, 98, 99, 100>>

\* Single boxes: every length field around the payload actually present,
\* every extended length likewise, and every truncation of each; then a box
\* of either form with another box behind it.
BoxInputs ==
    UNION {Prefixes(RawBox(L, TYPE_abcd, Payload(MaxPayload)))
             : L \in 0..(8 + MaxPayload + 1)}
    \cup
    UNION {Prefixes(RawXLBox(X, DESCRIPTION_BOX_TYPE, Payload(MaxPayload)))
             : X \in {0, 1, 15} \cup (16..(16 + MaxPayload + 1))}
    \cup
    {RawBox(8 + MaxPayload, TYPE_abcd, Payload(MaxPayload))
        \o RawBox(8 + MaxPayload, TYPE_abcd, Payload(MaxPayload)),
     RawXLBox(16 + MaxPayload, TYPE_abcd, Payload(MaxPayload))
        \o RawBox(8 + MaxPayload, TYPE_abcd, Payload(MaxPayload))}

\* --- description boxes ---

UUID == [k \in 1..16 |-> 16 + k]
LABEL == <<116, 101>>
ID_BYTES == <<0, 0, 1, 2>>
HASH == [k \in 1..32 |-> 128 + k]
TYPE_priv == <<112, 114, 105, 118>>
PRIVATE_BOX == RawBox(9, TYPE_priv, <<7>>)

\* The optional fields the bits of `fields` select, in wire order.
DescFields(fields, label) ==
    (IF toggle_set(fields, HAS_LABEL) THEN label \o <<0>> ELSE <<>>)
    \o (IF toggle_set(fields, HAS_ID) THEN ID_BYTES ELSE <<>>)
    \o (IF toggle_set(fields, HAS_HASH) THEN HASH ELSE <<>>)
    \o (IF toggle_set(fields, HAS_PRIVATE_BOX) THEN PRIVATE_BOX ELSE <<>>)

\* A box of type tbox around `payload`, with the length field that fits.
FitBox(tbox, payload) == RawBox(8 + Len(payload), tbox, payload)

\* A description box whose toggle byte is `toggles` and whose payload carries
\* the fields that `fields` selects.
DescBox(toggles, fields, label) ==
    FitBox(DESCRIPTION_BOX_TYPE, UUID \o <<toggles>> \o DescFields(fields, label))

\* Labels: empty, ASCII, two- and three-byte characters, then ill-formed
\* ones: a lone lead byte, 0xFF, a surrogate, an overlong form.
Labels ==
    {<<>>, LABEL, <<195, 169>>, <<226, 130, 172>>,
     <<195>>, <<255>>, <<237, 160, 128>>, <<192, 128>>}

ReservedBits == {32, 64, 128, 224}

ToggleBits == {REQUESTABLE, HAS_LABEL, HAS_ID, HAS_HASH, HAS_PRIVATE_BOX}

DescInputs ==
    \* every toggle combination with its fields, whole and cut short
    {FitBox(DESCRIPTION_BOX_TYPE, CutEnd(UUID \o <<t>> \o DescFields(t, LABEL), c))
        : t \in 0..31, c \in 0..MaxCut}
    \* reserved bits set on top
    \cup {DescBox(t + r, t, LABEL) : t \in 0..31, r \in ReservedBits}
    \* a toggle bit set with its field left out
    \cup UNION {{DescBox(t, t - b, LABEL)
                   : b \in {m \in ToggleBits \ {REQUESTABLE} : toggle_set(t, m)}}
                  : t \in 0..31}
    \* labels
    \cup {DescBox(t, t, l) : t \in {2, 3, 6}, l \in Labels}
    \* payloads too short for the UUID and the toggle byte
    \cup {FitBox(DESCRIPTION_BOX_TYPE, SubSeq(UUID \o <<0>>, 1, k)) : k \in 0..17}
    \* other headers: another type, read-to-end, extended length
    \cup {FitBox(TYPE_abcd, UUID \o <<3>> \o DescFields(3, LABEL)),
          RawBox(0, DESCRIPTION_BOX_TYPE, UUID \o <<7>> \o DescFields(7, LABEL)),
          RawXLBox(16 + 17 + 7, DESCRIPTION_BOX_TYPE,
                   UUID \o <<7>> \o DescFields(7, LABEL))}

\* --- super boxes ---

SuperDesc == DescBox(3, 3, LABEL)
DataChild == FitBox(TYPE_abcd, Payload(MaxPayload))

\* Payloads of super boxes without nested super boxes: well-formed ones, then
\* no description box, a first box of another type, a description box with a
\* missing field, a child with a reserved length, a child longer than the
\* payload.
LeafPayloads ==
    {SuperDesc, SuperDesc \o DataChild,
     <<>>,
     DataChild \o SuperDesc,
     DescBox(4, 0, LABEL),
     SuperDesc \o RawBox(5, TYPE_abcd, <<>>),
     SuperDesc \o RawBox(8 + MaxPayload + 1, TYPE_abcd, Payload(MaxPayload))}

\* The ways a nested super box n sits among its siblings.
Around(n) ==
    {SuperDesc \o n, SuperDesc \o DataChild \o n \o DataChild, SuperDesc \o n \o n}

\* Payloads of super boxes that nest exactly d levels of super boxes.
RECURSIVE SuperPayloads(_)
SuperPayloads(d) ==
    IF d = 0 THEN LeafPayloads
    ELSE UNION {Around(FitBox(SUPER_BOX_TYPE, p)) : p \in SuperPayloads(d - 1)}
         \cup (IF d = 1
               THEN {SuperDesc \o DataChild \o RawBox(0, SUPER_BOX_TYPE, p)
                       : p \in LeafPayloads}
               ELSE {})

SuperInputs ==
    UNION {{FitBox(SUPER_BOX_TYPE, p) : p \in SuperPayloads(d)} : d \in 0..MaxNest}
    \* bytes after the super box, read-to-end and extended-length headers
    \cup UNION {{FitBox(SUPER_BOX_TYPE, p) \o <<9, 9>>,
                 RawBox(0, SUPER_BOX_TYPE, p),
                 RawXLBox(16 + Len(p), SUPER_BOX_TYPE, p) \o <<9>>}
                  : p \in SuperPayloads(0) \cup SuperPayloads(1)}

\* --- super boxes to search by label ---

LABEL_a == <<97>>
LABEL_b == <<98>>
LABEL_a_slash_b == <<97, SLASH, 98>>

\* The concatenation of a sequence of byte strings.
RECURSIVE Concat(_)
Concat(ss) == IF ss = <<>> THEN <<>> ELSE Head(ss) \o Concat(Tail(ss))

\* A super box with this label (requestable or not) around these boxes.
LabelledSuper(label, requestable, boxes) ==
    FitBox(SUPER_BOX_TYPE,
           DescBox(HAS_LABEL + (IF requestable THEN REQUESTABLE ELSE 0),
                   HAS_LABEL + (IF requestable THEN REQUESTABLE ELSE 0), label)
           \o Concat(boxes))

\* A requestable super box without a label.
UnlabelledSuper == FitBox(SUPER_BOX_TYPE, DescBox(REQUESTABLE, REQUESTABLE, <<>>))

\* What a super box labelled "a" holds: nothing, one "b", two "b", a "b"
\* that is not requestable, one of each, an "a".
Grandchildren ==
    {<<>>,
     <<LabelledSuper(LABEL_b, TRUE, <<>>)>>,
     <<LabelledSuper(LABEL_b, TRUE, <<>>), LabelledSuper(LABEL_b, TRUE, <<DataChild>>)>>,
     <<LabelledSuper(LABEL_b, FALSE, <<>>)>>,
     <<LabelledSuper(LABEL_b, FALSE, <<>>), LabelledSuper(LABEL_b, TRUE, <<>>)>>,
     <<LabelledSuper(LABEL_a, TRUE, <<LabelledSuper(LABEL_b, TRUE, <<>>)>>)>>}

LabelledChildren ==
    {LabelledSuper(LABEL_a, TRUE, g) : g \in Grandchildren}
    \cup {LabelledSuper(LABEL_a, FALSE, <<LabelledSuper(LABEL_b, TRUE, <<>>)>>),
          LabelledSuper(LABEL_b, TRUE, <<>>),
          LabelledSuper(LABEL_a_slash_b, TRUE, <<>>),
          LabelledSuper(<<>>, TRUE, <<LabelledSuper(LABEL_b, TRUE, <<>>)>>),
          UnlabelledSuper,
          DataChild}

\* Most boxes side by side in a generated super box to search.
MaxSiblings == 2

RECURSIVE ChildLists(_)
ChildLists(n) ==
    IF n = 0 THEN {<<>>}
    ELSE ChildLists(n - 1)
         \cup {Append(l, c) : l \in {x \in ChildLists(n - 1) : Len(x) = n - 1},
                               c \in LabelledChildren}

LabelledInputs ==
    {FitBox(SUPER_BOX_TYPE, SuperDesc \o Concat(l)) : l \in ChildLists(MaxSiblings)}

\* The labels searched for: "a", "b", "a/b", "a/a", "a/a/b", "", "/b", "a/",
\* "te", "te/te".
Paths ==
    {LABEL_a, LABEL_b, LABEL_a_slash_b, <<97, SLASH, 97>>,
     <<97, SLASH, 97, SLASH, 98>>, <<>>, <<SLASH, 98>>, <<97, SLASH>>,
     LABEL, LABEL \o <<SLASH>> \o LABEL}

\* --- boxes whose offset in a super box is asked for ---

\* A read-to-end super box around a read-to-end box; a box without payload
\* right before a nested super box, right after one, and as its last child.
OffsetInputs ==
    {RawBox(0, SUPER_BOX_TYPE,
            SuperDesc \o RawBox(0, TYPE_abcd, Payload(MaxPayload))),
     FitBox(SUPER_BOX_TYPE,
            SuperDesc \o FitBox(TYPE_abcd, <<>>)
                \o FitBox(SUPER_BOX_TYPE, SuperDesc \o DataChild)),
     FitBox(SUPER_BOX_TYPE,
            SuperDesc \o FitBox(SUPER_BOX_TYPE, SuperDesc \o DataChild)
                \o FitBox(TYPE_abcd, <<>>)),
     FitBox(SUPER_BOX_TYPE,
            SuperDesc \o FitBox(SUPER_BOX_TYPE,
                                SuperDesc \o FitBox(TYPE_abcd, <<>>))
                \o DataChild)}

\* --- what the builders are given ---

\* A label with a zero byte inside: "a\0b".
LABEL_a_nul_b == <<97, 0, 98>>

BuilderLabels == {LABEL, <<>>, LABEL_a_nul_b}

\* The id of the test with_id.
ID_VALUE == 4096

data_box == DataBoxBuilder_from_owned(TYPE_abcd, Payload(MaxPayload))
private_data_box == DataBoxBuilder_from_owned(TYPE_priv, <<7>>)

\* Two placeholders, reserving 2 bytes and 1 byte.
pbox_1 == PlaceholderDataBox_new(1, TYPE_abcd, usize_of(2))
pbox_2 == PlaceholderDataBox_new(2, TYPE_priv, usize_of(1))
Placeholders == {pbox_1, pbox_2}

\* Two placeholders too large to be written: one reserves 0xfffffff8 bytes,
\* one more than a 32-bit length field has room for; one reserves 0x80000000
\* bytes, so that two of them are too much for the box around them.
pbox_huge == PlaceholderDataBox_new(3, TYPE_abcd, [hi |-> 65535, lo |-> 65528])
pbox_half == PlaceholderDataBox_new(4, TYPE_abcd, [hi |-> 32768, lo |-> 0])
HugePlaceholders == {pbox_huge, pbox_half}

\* No placeholder has been written.
NoOffsets ==
    [id \in {pbox.id : pbox \in Placeholders \cup HugePlaceholders} |-> None]

\* What replace_payload is given: nothing, one, two and three bytes.
Replacements == {<<>>, <<9>>, <<9, 8>>, <<9, 8, 7>>}

\* Most configuration calls that make up a builder, counting those of the
\* builders nested in it.
MaxCalls == 2

\* A box is written to the sink while the sink holds at most this many bytes.
MaxSinkBefore == 12

Inputs ==
    BoxInputs \cup DescInputs \cup SuperInputs \cup LabelledInputs
    \cup OffsetInputs


\* --- DataBox::offset_within_superbox ---

\* The address of the first byte of a slice.  Every slice here is a range of
\* the one buffer `input`, so addresses are offsets into it.
as_ptr(i) == i.off

\* usize subtraction modulo the word size.
wrapping_sub(a, b) == IF a >= b THEN a - b ELSE (a - b + 1) + usize_MAX

offset_if_inside(offset, dbox, super_box) ==
    IF offset + dbox.data.len > super_box.original.len THEN None
    ELSE Some(offset)

offset_within_superbox(dbox, super_box) ==
    IF as_ptr(dbox.data) < as_ptr(super_box.original) THEN None
    ELSE offset_if_inside(
             wrapping_sub(as_ptr(dbox.data), as_ptr(super_box.original)),
             dbox, super_box)

-----------------------------------------------------------------------------
(* The state machine: a caller holds one input buffer and applies the      *)
(* decoders to it, and to the boxes they return.                           *)

Whole(buf) == Slice(0, Len(buf))

NoResult == [ok |-> FALSE, kind |-> "none", n |-> 0, tbox |-> <<>>]

\* Every DataBox among the children of sbox, at any depth.
RECURSIVE data_boxes_of(_)
data_boxes_of(sbox) ==
    UNION {IF sbox.child_boxes[k].variant = "DataBox"
           THEN {sbox.child_boxes[k].dbox}
           ELSE data_boxes_of(sbox.child_boxes[k].sbox)
             : k \in 1..Len(sbox.child_boxes)}

Init ==
    /\ input \in Inputs
    /\ op = "none"
    /\ depth_limit = 0
    /\ arg = Whole(input)
    /\ result = NoResult
    /\ root_box = SuperBoxBuilder_new(UUID)
    /\ to_stream = Cursor(<<>>, 0)
    /\ pbox_offset = NoOffsets

\* The whole input is decoded as a box; after a box was decoded, so is what
\* follows it (the next box) or its payload (a nested box).
Call_DataBox_from_slice ==
    /\ \/ op = "none" /\ arg' = Whole(input)
       \/ /\ op = "DataBox::from_slice"
          /\ result.ok
          /\ arg' \in {result.rem, result.box.data}
    /\ op' = "DataBox::from_slice"
    /\ result' = DataBox_from_slice(input, arg')
    /\ UNCHANGED <<input, depth_limit, root_box, to_stream, pbox_offset>>

\* A decoded box is re-read as a description box.
Call_DescriptionBox_from_box ==
    /\ op = "DataBox::from_slice"
    /\ result.ok
    /\ op' = "DescriptionBox::from_box"
    /\ arg' = result.box
    /\ result' = DescriptionBox_from_box(input, result.box)
    /\ UNCHANGED <<input, depth_limit, root_box, to_stream, pbox_offset>>

\* The payload of a decoded box, or what follows the box, is split at its
\* first zero byte.
Call_split_at_null ==
    /\ op = "DataBox::from_slice"
    /\ result.ok
    /\ \E s \in {result.box.data, result.rem} :
          /\ arg' = s
          /\ result' = split_at_null(input, s)
    /\ op' = "Source::split_at_null"
    /\ UNCHANGED <<input, depth_limit, root_box, to_stream, pbox_offset>>

Call_SuperBox_from_source_with_depth_limit ==
    /\ op = "none"
    /\ \E d \in 0..MaxDepthLimit :
          /\ depth_limit' = d
          /\ result' = SuperBox_from_source_with_depth_limit(input, Whole(input), d)
    /\ op' = "SuperBox::from_source_with_depth_limit"
    /\ UNCHANGED <<input, arg, root_box, to_stream, pbox_offset>>

Call_SuperBox_from_source ==
    /\ op = "none"
    /\ op' = "SuperBox::from_source"
    /\ depth_limit' = usize_MAX
    /\ result' = SuperBox_from_source(input, Whole(input))
    /\ UNCHANGED <<input, arg, root_box, to_stream, pbox_offset>>

\* A DataBox found among the children of a decoded super box is re-parsed.
Call_SuperBox_from_data_box ==
    /\ op = "SuperBox::from_source_with_depth_limit"
    /\ result.ok
    /\ \E d \in data_boxes_of(result.sbox) :
          /\ arg' = d
          /\ result' = SuperBox_from_data_box(input, d)
    /\ op' = "SuperBox::from_data_box"
    /\ depth_limit' = usize_MAX
    /\ UNCHANGED <<input, root_box, to_stream, pbox_offset>>

\* A decoded super box is searched by label.
Call_find_by_label ==
    /\ op \in {"SuperBox::from_source_with_depth_limit", "SuperBox::from_source"}
    /\ result.ok
    /\ \E label \in Paths :
          /\ arg' = [sbox |-> result.sbox, label |-> label]
          /\ result' = SuperBox_find_by_label(input, result.sbox, label)
    /\ op' = "SuperBox::find_by_label"
    /\ UNCHANGED <<input, depth_limit, root_box, to_stream, pbox_offset>>

\* sbox and every super box decoded below it.
RECURSIVE super_boxes_of(_)
super_boxes_of(sbox) ==
    {sbox} \cup
    UNION {IF sbox.child_boxes[k].variant = "SuperBox"
           THEN super_boxes_of(sbox.child_boxes[k].sbox)
           ELSE {} : k \in 1..Len(sbox.child_boxes)}

\* The buffer, and the buffer without its last byte.
Reparsed == {Whole(input)} \cup
            (IF Len(input) > 0 THEN {Slice(0, Len(input) - 1)} ELSE {})

\* The decodes of the buffer and of the shorter buffer that succeed.
Reparses(d) ==
    {r \in {SuperBox_from_source_with_depth_limit(input, i, d) : i \in Reparsed}
        : r.ok}

\* A DataBox of one decode of the buffer is located in a super box of the
\* same or of another decode of it.
Call_offset_within_superbox ==
    /\ op \in {"SuperBox::from_source_with_depth_limit", "SuperBox::from_source"}
    /\ result.ok
    /\ \E rb \in Reparses(depth_limit), rs \in Reparses(depth_limit) :
          \E dbox \in data_boxes_of(rb.sbox), super_box \in super_boxes_of(rs.sbox) :
              /\ arg' = [dbox |-> dbox, sbox |-> super_box]
              /\ result' = offset_within_superbox(dbox, super_box)
    /\ op' = "DataBox::offset_within_superbox"
    /\ UNCHANGED <<input, depth_limit, root_box, to_stream, pbox_offset>>

Next ==
    \/ Call_DataBox_from_slice
    \/ Call_DescriptionBox_from_box
    \/ Call_split_at_null
    \/ Call_SuperBox_from_source_with_depth_limit
    \/ Call_SuperBox_from_source
    \/ Call_SuperBox_from_data_box
    \/ Call_find_by_label
    \/ Call_offset_within_superbox

Spec == Init /\ [][Next]_vars

-----------------------------------------------------------------------------
(* The state machine of the builders: a box is made (a SuperBoxBuilder is  *)
(* configured call by call), then it is written to one sink and the        *)
(* placeholders are patched.                                               *)

\* The configuration calls that made boxx, those of nested builders included.
RECURSIVE CallsOf(_)
RECURSIVE CallsOfChildren(_, _)
CallsOfChildren(child_boxes, k) ==
    IF k > Len(child_boxes) THEN 0
    ELSE 1 + CallsOf(as_ref(child_boxes[k])) + CallsOfChildren(child_boxes, k + 1)

CallsOf(boxx) ==
    IF boxx.kind # "SuperBoxBuilder" THEN 0
    ELSE (IF boxx.desc.label.some THEN 1 ELSE 0)
         + (IF boxx.desc.id.some THEN 1 ELSE 0)
         + (IF boxx.desc.hash.some THEN 1 ELSE 0)
         + (IF boxx.desc.private.some THEN 1 ELSE 0)
         + CallsOfChildren(boxx.child_boxes, 1)

Making == {"new", "SuperBoxBuilder::configure"}

Configuring ==
    /\ op \in Making
    /\ root_box.kind = "SuperBoxBuilder"
    /\ CallsOf(root_box) < MaxCalls

Configured(call, given, next) ==
    /\ root_box' = next
    /\ op' = "SuperBoxBuilder::configure"
    /\ arg' = [call |-> call, given |-> given]
    /\ UNCHANGED <<input, depth_limit, result, to_stream, pbox_offset>>

BuilderInit ==
    /\ input = <<>>
    /\ depth_limit = 0
    /\ op = "new"
    /\ arg = [call |-> "new", given |-> UUID]
    /\ result = NoResult
    /\ root_box \in {SuperBoxBuilder_new(UUID), data_box, pbox_huge} \cup Placeholders
    /\ to_stream = Cursor(<<>>, 0)
    /\ pbox_offset = NoOffsets

Call_set_label ==
    Configuring /\ \E label \in BuilderLabels : Configured("set_label", label, set_label(root_box, label))

Call_set_non_requestable_label ==
    Configuring /\ Configured("set_non_requestable_label", LABEL,
                              set_non_requestable_label(root_box, LABEL))

Call_set_id ==
    Configuring /\ Configured("set_id", ID_VALUE, set_id(root_box, ID_VALUE))

Call_set_sha256_hash ==
    Configuring /\ Configured("set_sha256_hash", HASH, set_sha256_hash(root_box, HASH))

Call_set_private_box ==
    Configuring /\ \E private \in {private_data_box, pbox_2, pbox_huge} :
                      Configured("set_private_box", private,
                                 set_private_box(root_box, private))

Call_add_child_box ==
    Configuring /\ Configured("add_child_box", data_box,
                              add_child_box(root_box, data_box))

Call_add_borrowed_child_box ==
    Configuring /\ \E pbox \in Placeholders \cup HugePlaceholders :
                      Configured("add_borrowed_child_box", pbox,
                                 add_borrowed_child_box(root_box, pbox))

\* The builder becomes the child of a new one.
Call_add_child_box_to_new ==
    Configuring /\ Configured("new().add_child_box", root_box,
                              add_child_box(SuperBoxBuilder_new(UUID), root_box))

\* The caller writes four bytes of its own to the empty sink.
Call_write_all ==
    /\ op \in Making
    /\ to_stream' = write_all(to_stream, TYPE_abcd, pbox_offset).s
    /\ op' = "Write::write_all"
    /\ UNCHANGED <<input, depth_limit, arg, result, root_box, pbox_offset>>

\* What a call is given: the box, and the sink and the recorded offsets as
\* they are before it.
Given(boxx) == [boxx |-> boxx, to_stream |-> to_stream, pbox_offset |-> pbox_offset]

\* A box is written when its size is refused, or when it has fewer than 2^16
\* bytes: no sink here takes the gigabytes of the placeholders above.
Writable(boxx) ==
    IF jumbf_size(boxx, to_stream, pbox_offset).ok
    THEN jumbf_size(boxx, to_stream, pbox_offset).v.hi = 0
    ELSE TRUE

\* write_payload does not ask for jumbf_size: a payload is written when it
\* has fewer than 2^16 bytes.
PayloadWritable(boxx) ==
    IF payload_size(boxx, to_stream, pbox_offset).ok
    THEN payload_size(boxx, to_stream, pbox_offset).v.hi = 0
    ELSE TRUE

\* The box is written while the sink is short.
Call_write_jumbf ==
    /\ Len(to_stream.bytes) <= MaxSinkBefore
    /\ Writable(root_box)
    /\ arg' = Given(root_box)
    /\ result' = write_jumbf(root_box, to_stream, pbox_offset)
    /\ to_stream' = result'.s
    /\ pbox_offset' = result'.off
    /\ op' = "write_jumbf"
    /\ UNCHANGED <<input, depth_limit, root_box>>

\* The payload of a data box or placeholder is written by itself.
Call_write_payload ==
    /\ Len(to_stream.bytes) <= MaxSinkBefore
    /\ root_box.kind # "SuperBoxBuilder"
    /\ PayloadWritable(root_box)
    /\ arg' = Given(root_box)
    /\ result' = write_payload(root_box, to_stream, pbox_offset)
    /\ to_stream' = result'.s
    /\ pbox_offset' = result'.off
    /\ op' = "write_payload"
    /\ UNCHANGED <<input, depth_limit, root_box>>

\* The size of the box is asked for: payload_size(), or jumbf_size().
Call_payload_size ==
    /\ Len(to_stream.bytes) <= MaxSinkBefore
    /\ arg' = Given(root_box)
    /\ \E size_of \in {"payload_size", "jumbf_size"} :
          /\ op' = size_of
          /\ result' = IF size_of = "payload_size"
                       THEN payload_size(root_box, to_stream, pbox_offset)
                       ELSE jumbf_size(root_box, to_stream, pbox_offset)
    /\ to_stream' = result'.s
    /\ pbox_offset' = result'.off
    /\ UNCHANGED <<input, depth_limit, root_box>>

Call_replace_payload ==
    /\ \E pbox \in Placeholders, payload \in Replacements :
          /\ arg' = [boxx |-> pbox, payload |-> payload,
                     to_stream |-> to_stream, pbox_offset |-> pbox_offset]
          /\ result' = PlaceholderDataBox_replace_payload(
                           pbox, to_stream, payload, pbox_offset)
    /\ to_stream' = result'.s
    /\ pbox_offset' = result'.off
    /\ op' = "replace_payload"
    /\ UNCHANGED <<input, depth_limit, root_box>>

BuilderNext ==
    \/ Call_set_label
    \/ Call_set_non_requestable_label
    \/ Call_set_id
    \/ Call_set_sha256_hash
    \/ Call_set_private_box
    \/ Call_add_child_box
    \/ Call_add_borrowed_child_box
    \/ Call_add_child_box_to_new
    \/ Call_write_all
    \/ Call_write_jumbf
    \/ Call_write_payload
    \/ Call_payload_size
    \/ Call_replace_payload

BuilderSpec == BuilderInit /\ [][BuilderNext]_vars

-----------------------------------------------------------------------------
(* Properties.                                                             *)

\* The number a sequence of bytes spells, most significant byte first
\* (saturating at SAT, as every number here).
RECURSIVE BigEndian(_)
BigEndian(s) ==
    IF s = <<>> THEN 0
    ELSE LET hi == BigEndian(SubSeq(s, 1, Len(s) - 1))
         IN  IF hi >= SAT \div 256 THEN SAT ELSE hi * 256 + s[Len(s)]

\* The bytes of the slice the box decoder was called on.
ArgBytes == Bytes(input, arg)

\* Its 32-bit length field L and its 64-bit extended length X, where present.
LengthField == BigEndian(SubSeq(ArgBytes, 1, 4))
ExtendedLength == BigEndian(SubSeq(ArgBytes, 9, 16))

HasHeader == arg.len >= 8
IsExtended == HasHeader /\ LengthField = 1 /\ arg.len >= 16

\* The header declares a payload length: L >= 8, or L = 1 with X >= 16.
DeclaresPayload ==
    \/ HasHeader /\ LengthField >= 8
    \/ IsExtended /\ ExtendedLength >= 16

HeaderLen == IF LengthField = 1 THEN 16 ELSE 8
DeclaredPayload ==
    IF LengthField = 1 THEN ExtendedLength - 16 ELSE LengthField - 8

BoxDecoded == op = "DataBox::from_slice" /\ result.ok

\* C1: length law of the box decoder.  Whenever DataBox::from_slice succeeds,
\* with L the length field: L >= 8 gives a payload of L-8 bytes behind an
\* 8-byte header; L = 1 with extended length X >= 16 gives X-16 bytes behind a
\* 16-byte header; L = 0 gives every byte after the 8-byte header and an empty
\* remainder.  In each case `original` is the prefix of the input of length
\* header + len(data), `data` is what follows the header in `original`, and
\* len(original) + len(remainder) = len(input).
C1_BoxLengthLaw ==
    BoxDecoded =>
        LET b == result.box
        IN  /\ HasHeader
            /\ \/ LengthField >= 8 /\ b.data.len = LengthField - 8
               \/ /\ IsExtended /\ ExtendedLength >= 16
                  /\ b.data.len = ExtendedLength - 16
               \/ /\ LengthField = 0
                  /\ b.data.len = arg.len - 8
                  /\ result.rem.len = 0
            /\ b.original.off = arg.off
            /\ b.original.len = HeaderLen + b.data.len
            /\ b.data.off = arg.off + HeaderLen
            /\ b.tbox = SubSeq(ArgBytes, 5, 8)
            /\ result.rem.off = End(b.original)
            /\ b.original.len + result.rem.len = arg.len

\* A box in the extended form is decoded, with payload and with bytes after it.
C1_Witness ==
    /\ BoxDecoded
    /\ IsExtended
    /\ result.box.data.len > 0
    /\ result.rem.len > 0

\* C2: a length field that cannot cover its own header is rejected.  With the
\* first 8 bytes present, L in 2..7 fails with InvalidBoxLength(L); L = 1 with
\* the extended length X present and X < 16 fails with InvalidBoxLength(X mod
\* 2^32), which is X.  No box is returned, whatever bytes follow.
C2_ReservedLengthRejected ==
    (op = "DataBox::from_slice" /\ HasHeader) =>
        /\ LengthField \in 2..7 =>
              /\ ~result.ok
              /\ result.kind = "InvalidBoxLength"
              /\ result.n = LengthField
        /\ (IsExtended /\ ExtendedLength < 16) =>
              /\ ~result.ok
              /\ result.kind = "InvalidBoxLength"
              /\ result.n = ExtendedLength

\* An extended length below 16 with bytes behind it is rejected.
C2_Witness ==
    /\ op = "DataBox::from_slice"
    /\ IsExtended
    /\ ExtendedLength \in 1..15
    /\ arg.len > 16
    /\ ~result.ok
    /\ result.kind = "InvalidBoxLength"

\* C3: a declared payload longer than what is left after the header makes the
\* box decoder fail with Incomplete; no box is returned whose `data` is
\* shorter than the declared payload.
C3_ShortPayloadIncomplete ==
    (op = "DataBox::from_slice" /\ DeclaresPayload) =>
        /\ DeclaredPayload > arg.len - HeaderLen =>
              ~result.ok /\ result.kind = "Incomplete"
        /\ result.ok => result.box.data.len >= DeclaredPayload

\* An extended length declares more payload than is left.
C3_Witness ==
    /\ op = "DataBox::from_slice"
    /\ IsExtended
    /\ ExtendedLength >= 16
    /\ DeclaredPayload > arg.len - 16
    /\ ~result.ok
    /\ result.kind = "Incomplete"

\* --- description boxes ---

\* t & (1 << k) != 0.
Bit(t, k) == (t \div (2 ^ k)) % 2 = 1

HasNull(s) == \E k \in 1..Len(s) : s[k] = 0
FirstNull(s) == CHOOSE k \in 1..Len(s) : s[k] = 0 /\ \A j \in 1..(k - 1) : s[j] # 0
Drop(s, n) == SubSeq(s, n + 1, Len(s))

\* The payload of the box DescriptionBox::from_box was called on, its toggle
\* byte and where that byte is in the input.
DescPayload == Bytes(input, arg.data)
TogglePos == arg.data.off + 17
ToggleByte == input[TogglePos]

DescDecoded == op = "DescriptionBox::from_box" /\ result.ok

\* Where each field of the decoded description box ends, when the fields lie
\* in the order label, id, hash, private box behind the toggle byte.
LabelEnd ==
    IF result.desc.label.some THEN End(result.desc.label.v) + 1 ELSE TogglePos
IdEnd == LabelEnd + (IF result.desc.id.some THEN 4 ELSE 0)
HashEnd == IdEnd + (IF result.desc.hash.some THEN 32 ELSE 0)
PrivateEnd ==
    HashEnd + (IF result.desc.private.some
               THEN result.desc.private.v.original.len ELSE 0)

\* The input with the three high bits of the toggle byte set to r.
WithReservedBits(r) == [input EXCEPT ![TogglePos] = (ToggleByte % 32) + r]

\* C4: the toggle byte alone decides which fields a decoded description box
\* has: requestable is bit 0x01, the label is present iff 0x02, the id iff
\* 0x04, the hash iff 0x08, the private box iff 0x10; the fields are read in
\* the order label, id, hash, private box; and the bits 0x20, 0x40, 0x80 have
\* no effect on the result.
C4_TogglesDecideFields ==
    DescDecoded =>
        LET d == result.desc
        IN  /\ d.requestable = Bit(ToggleByte, 0)
            /\ d.label.some = Bit(ToggleByte, 1)
            /\ d.id.some = Bit(ToggleByte, 2)
            /\ d.hash.some = Bit(ToggleByte, 3)
            /\ d.private.some = Bit(ToggleByte, 4)
            /\ d.uuid = Slice(arg.data.off, 16)
            /\ d.label.some =>
                  /\ d.label.v.off = TogglePos
                  /\ input[End(d.label.v) + 1] = 0
                  /\ ~HasNull(Bytes(input, d.label.v))
            /\ d.id.some =>
                  d.id.v = BigEndian(SubSeq(input, LabelEnd + 1, LabelEnd + 4))
            /\ d.hash.some => d.hash.v = Slice(IdEnd, 32)
            /\ d.private.some => d.private.v.original.off = HashEnd
            /\ result.rem.off = PrivateEnd
            /\ \A r \in {0, 32, 64, 96, 128, 160, 192, 224} :
                  DescriptionBox_from_box(WithReservedBits(r), arg) = result

\* A description box with a label, an id and a hash and with reserved bits in
\* its toggle byte is decoded.
C4_Witness ==
    /\ DescDecoded
    /\ ToggleByte >= 32
    /\ result.desc.label.some
    /\ result.desc.id.some
    /\ result.desc.hash.some
    /\ ~result.desc.private.some

\* What is left of the payload when each field is to be read.
AfterToggle == Drop(DescPayload, 17)
LabelMissing ==
    /\ Bit(ToggleByte, 1)
    /\ \/ ~HasNull(AfterToggle)
       \/ ~utf8_valid(SubSeq(AfterToggle, 1, FirstNull(AfterToggle) - 1), 1)
AfterLabel ==
    IF Bit(ToggleByte, 1) THEN Drop(AfterToggle, FirstNull(AfterToggle))
    ELSE AfterToggle
IdMissing == Bit(ToggleByte, 2) /\ Len(AfterLabel) < 4
AfterId == IF Bit(ToggleByte, 2) THEN Drop(AfterLabel, 4) ELSE AfterLabel
HashMissing == Bit(ToggleByte, 3) /\ Len(AfterId) < 32
AfterHash == IF Bit(ToggleByte, 3) THEN Drop(AfterId, 32) ELSE AfterId
PrivateMissing ==
    /\ Bit(ToggleByte, 4)
    /\ ~DataBox_from_slice(input, Slice(End(arg.data) - Len(AfterHash),
                                        Len(AfterHash))).ok

\* The UUID, the toggle byte or the data of a field whose bit is set is not
\* there to decode.
Undecodable ==
    IF Len(DescPayload) < 17 THEN TRUE
    ELSE IF LabelMissing THEN TRUE
    ELSE IF IdMissing THEN TRUE
    ELSE IF HashMissing THEN TRUE
    ELSE PrivateMissing

\* C5: a toggle bit set without decodable data behind it makes
\* DescriptionBox::from_box fail, never default: has-label with no zero byte
\* left or a label that is not UTF-8, has-id with fewer than 4 bytes left,
\* has-hash with fewer than 32 bytes left, has-private-box with no decodable
\* box left; and so do fewer than 16 UUID bytes and a missing toggle byte.
C5_SetBitNeedsData ==
    (op = "DescriptionBox::from_box" /\ Undecodable) => ~result.ok

\* The has-hash bit is set, the fields before the hash are there, fewer than
\* 32 bytes are left for the hash, and decoding fails.
C5_Witness ==
    /\ op = "DescriptionBox::from_box"
    /\ arg.tbox = DESCRIPTION_BOX_TYPE
    /\ Len(DescPayload) >= 17
    /\ ~LabelMissing
    /\ ~IdMissing
    /\ HashMissing
    /\ Len(AfterId) > 0
    /\ ~result.ok

\* C6: split_at_null returns (prefix, rest) with prefix the bytes before the
\* first zero byte (so without a zero byte) and rest the bytes after that zero
\* byte, prefix ++ [0] ++ rest being the input; it fails when the input has no
\* zero byte.
C6_SplitAtNull ==
    op = "Source::split_at_null" =>
        IF HasNull(ArgBytes)
        THEN /\ result.ok
             /\ LET prefix == Bytes(input, result.first)
                    rest == Bytes(input, result.rem)
                IN  /\ prefix = SubSeq(ArgBytes, 1, FirstNull(ArgBytes) - 1)
                    /\ ~HasNull(prefix)
                    /\ rest = Drop(ArgBytes, FirstNull(ArgBytes))
                    /\ prefix \o <<0>> \o rest = ArgBytes
                    /\ result.first.off = arg.off
                    /\ End(result.rem) = End(arg)
        ELSE ~result.ok

\* A source with bytes before its first zero byte and a further zero byte
\* after it is split.
C6_Witness ==
    /\ op = "Source::split_at_null"
    /\ result.ok
    /\ result.first.len > 0
    /\ HasNull(Bytes(input, result.rem))

\* --- super boxes ---

FromSource ==
    op \in {"SuperBox::from_source_with_depth_limit", "SuperBox::from_source"}
FromDataBox == op = "SuperBox::from_data_box"
SuperBoxDecoded == (FromSource \/ FromDataBox) /\ result.ok

\* The outer box of the call: the box given to from_data_box, or the box at
\* the head of the source given to from_source.
OuterDecode == DataBox_from_source(input, arg)
HasOuterBox == FromDataBox \/ (FromSource /\ OuterDecode.ok)
OuterBox == IF FromDataBox THEN arg ELSE OuterDecode.box

\* The four type bytes of the box that starts at offset off.
TypeAt(off) == Bytes(input, Slice(off + 4, 4))
OuterType == TypeAt(OuterBox.original.off)

\* The first box of the outer box's payload, where there is one.
FirstBox == DataBox_from_source(input, OuterBox.data)
FirstType == TypeAt(OuterBox.data.off)

\* C7: super-box decoding returns a SuperBox only when the outer box is of
\* type 'jumb' and the first box of its payload is a well-formed 'jumd'
\* description box.  An outer box of another type fails with
\* InvalidSuperBoxType(its type); a 'jumb' box with an empty payload fails;
\* one whose first box has another type fails with
\* InvalidDescriptionBoxType(that type).  The description box is never made
\* up or skipped.
C7_SuperBoxNeedsJumbAndJumd ==
    /\ (FromSource /\ ~OuterDecode.ok) => ~result.ok
    /\ HasOuterBox =>
          /\ OuterType # SUPER_BOX_TYPE =>
                /\ ~result.ok
                /\ result.kind = "InvalidSuperBoxType"
                /\ result.tbox = OuterType
          /\ (OuterType = SUPER_BOX_TYPE /\ OuterBox.data.len = 0) => ~result.ok
          /\ (OuterType = SUPER_BOX_TYPE /\ FirstBox.ok
                /\ FirstType # DESCRIPTION_BOX_TYPE) =>
                /\ ~result.ok
                /\ result.kind = "InvalidDescriptionBoxType"
                /\ result.tbox = FirstType
          /\ result.ok =>
                /\ OuterType = SUPER_BOX_TYPE
                /\ FirstBox.ok
                /\ FirstType = DESCRIPTION_BOX_TYPE
                /\ DescriptionBox_from_box(input, FirstBox.box).ok
                /\ result.sbox.desc =
                      DescriptionBox_from_box(input, FirstBox.box).desc
                /\ result.sbox.desc.original = FirstBox.box.original

\* A 'jumb' box whose payload starts with a box of another type is refused.
C7_Witness ==
    /\ FromSource
    /\ OuterDecode.ok
    /\ OuterType = SUPER_BOX_TYPE
    /\ FirstBox.ok
    /\ FirstType # DESCRIPTION_BOX_TYPE
    /\ result.kind = "InvalidDescriptionBoxType"

ChildOriginal(c) ==
    IF c.variant = "SuperBox" THEN c.sbox.original ELSE c.dbox.original

\* The header of the box that starts at offset off: 16 bytes in the extended
\* form, else 8.
HeaderLenAt(off) ==
    IF BigEndian(Bytes(input, Slice(off, 4))) = 1 THEN 16 ELSE 8

\* desc.original and the children's originals, in list order, tile the
\* payload of sbox; so it is in every super box among the children.
RECURSIVE Partitioned(_)
Partitioned(sbox) ==
    LET n == Len(sbox.child_boxes)
        Orig(k) == IF k = 0 THEN sbox.desc.original
                   ELSE ChildOriginal(sbox.child_boxes[k])
    IN  /\ Orig(0).off = sbox.original.off + HeaderLenAt(sbox.original.off)
        /\ \A k \in 1..n : Orig(k).off = End(Orig(k - 1))
        /\ End(Orig(n)) = End(sbox.original)
        /\ \A k \in 0..n : Orig(k).len > 0
        /\ \A k \in 1..n :
              sbox.child_boxes[k].variant = "SuperBox" =>
                  Partitioned(sbox.child_boxes[k].sbox)

\* C8: partition invariant of every decoded SuperBox, at every nesting level
\* and for every depth limit: desc.original and then the `original` ranges of
\* child_boxes, in list order, are disjoint and adjacent, start right after
\* the super box's own header and end at the end of its `original`; nothing
\* of the payload is left over, and child_boxes is in encounter order.
C8_Partition ==
    SuperBoxDecoded => Partitioned(result.sbox)

\* A decoded super box with three children, one of them a decoded super box
\* that has children of its own.
C8_Witness ==
    /\ SuperBoxDecoded
    /\ Len(result.sbox.child_boxes) >= 3
    /\ \E k \in 1..Len(result.sbox.child_boxes) :
          /\ result.sbox.child_boxes[k].variant = "SuperBox"
          /\ Len(result.sbox.child_boxes[k].sbox.child_boxes) >= 1

\* The box that starts where child c starts, read from what is left of the
\* payload of its parent.
BoxOfChild(parent, c) ==
    DataBox_from_source(input,
        Slice(ChildOriginal(c).off, End(parent.original) - ChildOriginal(c).off))

\* Every child of sbox, decoded with depth limit d, is classified by its type
\* and d; so it is, with d - 1, in every super box among the children.
RECURSIVE Classified(_, _)
Classified(sbox, d) ==
    \A k \in 1..Len(sbox.child_boxes) :
        LET c == sbox.child_boxes[k]
        IN  /\ c.variant \in {"SuperBox", "DataBox"}
            /\ (c.variant = "SuperBox")
                  <=> (TypeAt(ChildOriginal(c).off) = SUPER_BOX_TYPE /\ d > 0)
            /\ BoxOfChild(sbox, c).ok
            /\ c.variant = "DataBox" => c.dbox = BoxOfChild(sbox, c).box
            /\ c.variant = "SuperBox" =>
                  /\ SuperBox_from_data_box_with_depth_limit(
                         input, BoxOfChild(sbox, c).box, d - 1)
                       = [ok |-> TRUE, sbox |-> c.sbox]
                  /\ Classified(c.sbox, d - 1)

\* C9: when a super box is decoded with depth limit d, a box after the
\* description box becomes ChildBox::SuperBox, decoded with limit d-1, if and
\* only if its type is 'jumb' and d > 0; otherwise it becomes
\* ChildBox::DataBox holding the box undecoded.  There is no other variant.
C9_ChildClassification ==
    SuperBoxDecoded => Classified(result.sbox, depth_limit)

\* Decoded with depth limit 1: a child is a decoded super box, and a 'jumb'
\* box inside it is kept as a DataBox.
C9_Witness ==
    /\ op = "SuperBox::from_source_with_depth_limit"
    /\ result.ok
    /\ depth_limit = 1
    /\ \E k \in 1..Len(result.sbox.child_boxes) :
          /\ result.sbox.child_boxes[k].variant = "SuperBox"
          /\ \E j \in 1..Len(result.sbox.child_boxes[k].sbox.child_boxes) :
                LET c == result.sbox.child_boxes[k].sbox.child_boxes[j]
                IN  c.variant = "DataBox" /\ c.dbox.tbox = SUPER_BOX_TYPE

\* sbox, decoded at depth limit k, with every 'jumb' DataBox at nesting level
\* k (the children of the root are at level 0) replaced by that box decoded
\* with depth limit 0.
RECURSIVE Refined(_, _, _)
Refined(sbox, k, level) ==
    [sbox EXCEPT !.child_boxes =
        [j \in 1..Len(sbox.child_boxes) |->
            LET c == sbox.child_boxes[j]
            IN  IF c.variant = "SuperBox"
                THEN ChildSuperBox(Refined(c.sbox, k, level + 1))
                ELSE IF c.dbox.tbox = SUPER_BOX_TYPE /\ level = k
                THEN ChildSuperBox(
                         SuperBox_from_data_box_with_depth_limit(
                             input, c.dbox, 0).sbox)
                ELSE c]]

\* sbox and every super box decoded below it.
RECURSIVE Nodes(_)
Nodes(sbox) ==
    {sbox} \cup
    UNION {IF sbox.child_boxes[k].variant = "SuperBox"
           THEN Nodes(sbox.child_boxes[k].sbox)
           ELSE {} : k \in 1..Len(sbox.child_boxes)}

DecodedOneDeeper ==
    SuperBox_from_source_with_depth_limit(input, arg, depth_limit + 1)
DecodedUnbounded == SuperBox_from_source(input, Whole(input))

\* C10: depth-limit refinement.  For an input that decodes at depth limits k
\* and k+1, the result at k+1 is the result at k with every 'jumb' DataBox at
\* nesting level k replaced by the SuperBox that decoding that DataBox with
\* depth limit 0 gives; everything else is the same.  And re-parsing such a
\* 'jumb' DataBox with SuperBox::from_data_box gives the SuperBox that the
\* unbounded decode of the whole input has at that position.
C10_DepthLimitRefinement ==
    /\ (op = "SuperBox::from_source_with_depth_limit" /\ result.ok
          /\ DecodedOneDeeper.ok) =>
          /\ DecodedOneDeeper.sbox = Refined(result.sbox, depth_limit, 0)
          /\ DecodedOneDeeper.rem = result.rem
    /\ (FromDataBox /\ arg.tbox = SUPER_BOX_TYPE /\ DecodedUnbounded.ok) =>
          /\ result.ok
          /\ {n \in Nodes(DecodedUnbounded.sbox) : n.original = arg.original}
                = {result.sbox}

\* A 'jumb' box left undecoded by the depth limit is re-parsed into a super
\* box that has a nested super box of its own.
C10_Witness ==
    /\ FromDataBox
    /\ arg.tbox = SUPER_BOX_TYPE
    /\ DecodedUnbounded.ok
    /\ result.ok
    /\ \E k \in 1..Len(result.sbox.child_boxes) :
          result.sbox.child_boxes[k].variant = "SuperBox"

\* --- find_by_label ---

Searched == op = "SuperBox::find_by_label"

\* The segments of a path: the byte strings between its '/' characters.
RECURSIVE Segments(_)
Segments(path) ==
    IF \A k \in 1..Len(path) : path[k] # SLASH THEN <<path>>
    ELSE LET k == CHOOSE i \in 1..Len(path) :
                      path[i] = SLASH /\ \A j \in 1..(i - 1) : path[j] # SLASH
         IN  <<SubSeq(path, 1, k - 1)>> \o Segments(Drop(path, k))

\* The children of sbox that are requestable super boxes labelled seg.
Candidates(sbox, seg) ==
    {k \in 1..Len(sbox.child_boxes) :
        /\ sbox.child_boxes[k].variant = "SuperBox"
        /\ sbox.child_boxes[k].sbox.desc.label.some
        /\ Bytes(input, sbox.child_boxes[k].sbox.desc.label.v) = seg
        /\ sbox.child_boxes[k].sbox.desc.requestable}

TheCandidate(sbox, seg) ==
    sbox.child_boxes[CHOOSE k \in Candidates(sbox, seg) : TRUE].sbox

\* Somewhere on the descent along segs, two or more siblings are requestable
\* and carry the label looked for at that level.
RECURSIVE Ambiguous(_, _)
Ambiguous(sbox, segs) ==
    \/ Cardinality(Candidates(sbox, segs[1])) >= 2
    \/ /\ Cardinality(Candidates(sbox, segs[1])) = 1
       /\ Len(segs) > 1
       /\ Ambiguous(TheCandidate(sbox, segs[1]), Tail(segs))

\* C11: ambiguity law of find_by_label.  If at any level of the descent two
\* or more sibling super boxes are requestable and carry the label of the
\* current path segment, the lookup returns None; it returns none of them and
\* does not descend through one of them.
C11_AmbiguousIsNone ==
    (Searched /\ Ambiguous(arg.sbox, Segments(arg.label))) => result = None

\* The first segment has one match, the second segment has two matches in it,
\* and the lookup returns None.
C11_Witness ==
    /\ Searched
    /\ Len(Segments(arg.label)) = 2
    /\ Cardinality(Candidates(arg.sbox, Segments(arg.label)[1])) = 1
    /\ Ambiguous(arg.sbox, Segments(arg.label))
    /\ result = None

\* Range a lies within range b.
Within(a, b) == b.off <= a.off /\ End(a) <= End(b)

\* The super boxes decoded strictly below sbox.
Below(sbox) == Nodes(sbox) \ {sbox}

\* C12: non-requestable exclusion.  find_by_label never returns a super box
\* whose description box is not requestable and never descends through one,
\* even when its label is unique among its siblings.
C12_NonRequestableExcluded ==
    (Searched /\ result.some) =>
        /\ result.v \in Below(arg.sbox)
        /\ \A n \in Below(arg.sbox) :
              Within(result.v.original, n.original) => n.desc.requestable

\* The only child labelled with the first segment is not requestable, has a
\* requestable child labelled with the second segment, and nothing is found.
C12_Witness ==
    /\ Searched
    /\ Len(Segments(arg.label)) = 2
    /\ Candidates(arg.sbox, Segments(arg.label)[1]) = {}
    /\ \E k \in 1..Len(arg.sbox.child_boxes) :
          LET c == arg.sbox.child_boxes[k]
          IN  /\ c.variant = "SuperBox"
              /\ c.sbox.desc.label.some
              /\ Bytes(input, c.sbox.desc.label.v) = Segments(arg.label)[1]
              /\ ~c.sbox.desc.requestable
              /\ Candidates(c.sbox, Segments(arg.label)[2]) # {}
    /\ result = None

\* b is reached from sbox through requestable super boxes whose labels are
\* segs, in order.
RECURSIVE Chain(_, _, _)
Chain(sbox, segs, b) ==
    \E k \in Candidates(sbox, segs[1]) :
        IF Len(segs) = 1 THEN sbox.child_boxes[k].sbox = b
        ELSE Chain(sbox.child_boxes[k].sbox, Tail(segs), b)

\* C13: path resolution of find_by_label.  With the path split at its first
\* '/', the candidates are the immediate children that are decoded super
\* boxes, requestable and labelled with the first segment.  One candidate: the
\* result is that candidate, or find_by_label(remaining path) on it.  No
\* candidate: None.  DataBox children, unlabelled boxes and non-requestable
\* boxes neither match nor make a match ambiguous.  A result Some(b) is
\* reached through a chain of requestable super boxes whose labels spell the
\* path.
C13_PathResolution ==
    Searched =>
        LET segs == Segments(arg.label)
            cands == Candidates(arg.sbox, segs[1])
        IN  /\ cands = {} => result = None
            /\ Cardinality(cands) = 1 =>
                  IF Len(segs) = 1
                  THEN result = Some(TheCandidate(arg.sbox, segs[1]))
                  ELSE result = SuperBox_find_by_label(
                                    input, TheCandidate(arg.sbox, segs[1]),
                                    Drop(arg.label, Len(segs[1]) + 1))
            /\ result.some => Chain(arg.sbox, segs, result.v)

\* A two-segment path is resolved although a non-requestable sibling carries
\* the label of the first segment too.
C13_Witness ==
    /\ Searched
    /\ result.some
    /\ Len(Segments(arg.label)) = 2
    /\ \E k \in 1..Len(arg.sbox.child_boxes) :
          LET c == arg.sbox.child_boxes[k]
          IN  /\ c.variant = "SuperBox"
              /\ c.sbox.desc.label.some
              /\ Bytes(input, c.sbox.desc.label.v) = Segments(arg.label)[1]
              /\ ~c.sbox.desc.requestable

\* --- offset_within_superbox ---

Located == op = "DataBox::offset_within_superbox"

\* The box was decoded as a child, or a deeper descendant, of the super box.
MemberOf(dbox, sbox) == dbox \in data_boxes_of(sbox)

\* What the lookup answers for a member, for a box whose data starts before
\* the super box or is not entirely inside it, and in every case: never an
\* offset outside the super box.
C14_InsideOrNone ==
    Located =>
        /\ MemberOf(arg.dbox, arg.sbox) =>
              /\ result = Some(arg.dbox.data.off - arg.sbox.original.off)
              /\ result.v + arg.dbox.data.len <= arg.sbox.original.len
        /\ (\/ arg.dbox.data.off < arg.sbox.original.off
            \/ End(arg.dbox.data) > End(arg.sbox.original)) => result = None
        /\ result.some =>
              /\ result.v >= 0
              /\ result.v + arg.dbox.data.len <= arg.sbox.original.len

\* A box whose bytes are not inside the super box is not a member of it: the
\* lookup answers None.
C14_NonMemberIsNone ==
    (Located /\ ~Within(arg.dbox.original, arg.sbox.original)) => result = None

\* C14: offset recovery.  For a decoded box B and a super box S,
\* offset_within_superbox returns Some(o) with o = start of B.data - start of
\* S.original when B was decoded as a child or deeper descendant of S, and
\* then o + len(B.data) <= len(S.original); it returns None whenever B is not
\* a member of S (B.data starts before S.original or does not lie entirely
\* inside it; a box of a sibling that precedes or follows S; a box of a longer
\* parse of the same bytes that overruns S).  It never returns a wrapped or
\* out-of-range offset.
C14_OffsetRecovery == C14_InsideOrNone /\ C14_NonMemberIsNone

\* --- the builders ---

\* The number a usize stands for.
Number(size) == size.hi * 65536 + size.lo

\* The wire form of a builder value, written down from the format: length,
\* type, payload; a super box holds its description box and then its
\* children; a description box holds uuid, toggles, label and zero byte, id,
\* hash, private box.
RECURSIVE Wire(_)
RECURSIVE PayloadBytes(_)
RECURSIVE WireOfChildren(_, _)
WireOfChildren(child_boxes, k) ==
    IF k > Len(child_boxes) THEN <<>>
    ELSE Wire(child_boxes[k].boxx) \o WireOfChildren(child_boxes, k + 1)

DescFieldBytes(desc) ==
    (IF desc.label.some THEN desc.label.v \o <<0>> ELSE <<>>)
    \o (IF desc.id.some THEN be32_bytes(desc.id.v) ELSE <<>>)
    \o (IF desc.hash.some THEN desc.hash.v ELSE <<>>)
    \o (IF desc.private.some THEN Wire(desc.private.v) ELSE <<>>)

\* Bit 0: requestable; bits 1 to 4: label, id, hash, private box are there.
TogglesOf(desc) ==
    (IF desc.requestable THEN 1 ELSE 0) + (IF desc.label.some THEN 2 ELSE 0)
    + (IF desc.id.some THEN 4 ELSE 0) + (IF desc.hash.some THEN 8 ELSE 0)
    + (IF desc.private.some THEN 16 ELSE 0)

PayloadBytes(boxx) ==
    CASE boxx.kind = "DataBoxBuilder" -> boxx.data
      [] boxx.kind = "PlaceholderDataBox" -> [k \in 1..Number(boxx.size) |-> 0]
      [] boxx.kind = "DescriptionBoxBuilder" ->
            boxx.uuid \o <<TogglesOf(boxx)>> \o DescFieldBytes(boxx)
      [] boxx.kind = "SuperBoxBuilder" ->
            Wire(boxx.desc) \o WireOfChildren(boxx.child_boxes, 1)

TypeOf(boxx) ==
    CASE boxx.kind = "SuperBoxBuilder" -> <<106, 117, 109, 98>>
      [] boxx.kind = "DescriptionBoxBuilder" -> <<106, 117, 109, 100>>
      [] OTHER -> boxx.tbox

Wire(boxx) ==
    be32_bytes(Len(PayloadBytes(boxx)) + 8) \o TypeOf(boxx) \o PayloadBytes(boxx)

Wrote(name) == op = name /\ result.ok

\* The bytes the last call put into the sink, from the position the sink had
\* before the call to the position it has now.
Emitted == SubSeq(to_stream.bytes, arg.to_stream.pos + 1, to_stream.pos)

\* C16: write_jumbf wire format.  A successful write_jumbf of a box built
\* from DataBoxBuilder, PlaceholderDataBox and SuperBoxBuilder puts into the
\* sink, in this order, the 4-byte big-endian value payload_size() + 8, the 4
\* type bytes and the payload; the number of bytes it writes is the value of
\* the length field.  The bytes go where the sink's position is: behind
\* everything the sink holds when the position is at its end, and nothing
\* outside them changes.
C16_WireFormat ==
    Wrote("write_jumbf") =>
        /\ BigEndian(SubSeq(Emitted, 1, 4))
              = Number(payload_size(arg.boxx, arg.to_stream, arg.pbox_offset).v) + 8
        /\ SubSeq(Emitted, 5, 8) = TypeOf(arg.boxx)
        /\ Drop(Emitted, 8) = PayloadBytes(arg.boxx)
        /\ Len(Emitted) = BigEndian(SubSeq(Emitted, 1, 4))
        /\ arg.to_stream.pos = Len(arg.to_stream.bytes) =>
              to_stream.bytes = arg.to_stream.bytes \o Emitted
        /\ \A k \in 1..Len(arg.to_stream.bytes) :
              (k <= arg.to_stream.pos \/ k > to_stream.pos) =>
                  to_stream.bytes[k] = arg.to_stream.bytes[k]

\* A super box with a child is written behind bytes the sink already holds.
C16_Witness ==
    /\ Wrote("write_jumbf")
    /\ arg.boxx.kind = "SuperBoxBuilder"
    /\ Len(arg.boxx.child_boxes) > 0
    /\ arg.to_stream.pos > 0
    /\ Len(Emitted) > 8

\* The sum of the lengths of the wire forms of the first n children.
RECURSIVE WireLenUpTo(_, _)
WireLenUpTo(child_boxes, n) ==
    IF n = 0 THEN 0
    ELSE WireLenUpTo(child_boxes, n - 1) + Len(PayloadBytes(child_boxes[n].boxx)) + 8

\* The sum of payload_size() + 8 over the children.
RECURSIVE SizesUpTo(_, _)
SizesUpTo(child_boxes, n) ==
    IF n = 0 THEN 0
    ELSE SizesUpTo(child_boxes, n - 1)
         + Number(payload_size(child_boxes[n].boxx, arg.to_stream,
                               arg.pbox_offset).v) + 8

\* What the payload of the written super box holds, and what payload_size is.
C17_Written ==
    (Wrote("write_jumbf") /\ arg.boxx.kind = "SuperBoxBuilder") =>
        LET payload == Drop(Emitted, 8)
            desc_len == Len(PayloadBytes(arg.boxx.desc)) + 8
            children == arg.boxx.child_boxes
        IN  /\ SubSeq(payload, 1, desc_len) = Wire(arg.boxx.desc)
            /\ \A k \in 1..Len(children) :
                  SubSeq(payload, desc_len + WireLenUpTo(children, k - 1) + 1,
                         desc_len + WireLenUpTo(children, k))
                      = Wire(children[k].boxx)
            /\ Len(payload) = desc_len + WireLenUpTo(children, Len(children))
            /\ Number(payload_size(arg.boxx, arg.to_stream, arg.pbox_offset).v)
                  = desc_len + SizesUpTo(children, Len(children))
            /\ Number(payload_size(arg.boxx, arg.to_stream, arg.pbox_offset).v)
                  = Len(payload)

\* Every add_child_box / add_borrowed_child_box puts its box behind the
\* children the builder has.
C17_Added ==
    /\ (op' = "SuperBoxBuilder::configure" /\ arg'.call = "add_child_box") =>
          root_box'.child_boxes
              = Append(root_box.child_boxes,
                       [variant |-> "OwnedBox", boxx |-> arg'.given])
    /\ (op' = "SuperBoxBuilder::configure" /\ arg'.call = "add_borrowed_child_box") =>
          root_box'.child_boxes
              = Append(root_box.child_boxes,
                       [variant |-> "BorrowedBox", boxx |-> arg'.given])

\* C17: SuperBoxBuilder serialization order and size.  The payload written
\* for a SuperBoxBuilder is the description box first, then the child boxes in
\* the order in which add_child_box / add_borrowed_child_box were called,
\* owned and borrowed children interleaved in call order; payload_size() is
\* the on-wire size of the description box plus the sum of the on-wire sizes
\* (payload + 8) of the children, and is the number of bytes write_payload
\* emits.
C17_OrderAndSize == []C17_Written /\ [][C17_Added]_vars

\* An owned child and a borrowed one, in this order, were written.
C17_Witness ==
    /\ Wrote("write_jumbf")
    /\ arg.boxx.kind = "SuperBoxBuilder"
    /\ Len(arg.boxx.child_boxes) = 2
    /\ arg.boxx.child_boxes[1].variant = "OwnedBox"
    /\ arg.boxx.child_boxes[2].variant = "BorrowedBox"
    /\ arg.boxx.child_boxes[1].boxx # arg.boxx.child_boxes[2].boxx

\* Where the payload of placeholder id begins, for each place it has in boxx,
\* when boxx is written at stream position start.
RECURSIVE PositionsOf(_, _, _)
PositionsOf(boxx, id, start) ==
    CASE boxx.kind = "PlaceholderDataBox" ->
            IF boxx.id = id THEN {start + 8} ELSE {}
      [] boxx.kind = "SuperBoxBuilder" ->
            UNION {PositionsOf(boxx.child_boxes[k].boxx, id,
                               start + 8 + Len(Wire(boxx.desc))
                                   + WireLenUpTo(boxx.child_boxes, k - 1))
                     : k \in 1..Len(boxx.child_boxes)}
      [] OTHER -> {}

\* The placeholder is boxx or a child of it at some depth.
RECURSIVE Holds(_, _)
Holds(boxx, id) ==
    CASE boxx.kind = "PlaceholderDataBox" -> boxx.id = id
      [] boxx.kind = "SuperBoxBuilder" ->
            \/ \E k \in 1..Len(boxx.child_boxes) : Holds(boxx.child_boxes[k].boxx, id)
            \/ boxx.desc.private.some /\ Holds(boxx.desc.private.v, id)
      [] OTHER -> FALSE

\* C18: placeholder write.  offset() is None until the placeholder has been
\* written: before any box is written, and as long as no write_jumbf or
\* write_payload of a box holding it has run.  After a successful write_jumbf
\* of a PlaceholderDataBox of size N, directly or as a child at any depth of a
\* SuperBoxBuilder, offset() is Some(p), p the absolute stream position of the
\* first byte of the placeholder's payload, right behind its 8-byte header,
\* and the N bytes of the sink at [p, p + N) are zero.
C18_PlaceholderWrite ==
    \A pbox \in Placeholders :
        /\ op \in {"new", "SuperBoxBuilder::configure", "Write::write_all"} =>
              PlaceholderDataBox_offset(pbox, pbox_offset) = None
        /\ (op \in {"write_jumbf", "write_payload", "replace_payload"}
               /\ pbox_offset[pbox.id] # arg.pbox_offset[pbox.id]) =>
              op # "replace_payload" /\ Holds(arg.boxx, pbox.id)
        /\ (Wrote("write_jumbf") /\ Holds(arg.boxx, pbox.id)) =>
              /\ PlaceholderDataBox_offset(pbox, pbox_offset).some
              /\ PlaceholderDataBox_offset(pbox, pbox_offset).v
                    \in PositionsOf(arg.boxx, pbox.id, arg.to_stream.pos)
              /\ \A k \in 1..Number(pbox.size) :
                    to_stream.bytes[PlaceholderDataBox_offset(pbox, pbox_offset).v + k] = 0

\* A placeholder that reserves bytes was written as the child of a child,
\* behind bytes the sink already held.
C18_Witness ==
    /\ Wrote("write_jumbf")
    /\ arg.to_stream.pos > 0
    /\ arg.boxx.kind = "SuperBoxBuilder"
    /\ \E k \in 1..Len(arg.boxx.child_boxes) :
          /\ arg.boxx.child_boxes[k].boxx.kind = "SuperBoxBuilder"
          /\ Holds(arg.boxx.child_boxes[k].boxx, pbox_1.id)
    /\ pbox_offset[pbox_1.id].some
    /\ arg.pbox_offset[pbox_1.id] = None

\* C19: PlaceholderDataBox::write_payload called while the stream position
\* of the sink is 0 fails, writes no byte and leaves the recorded offset as
\* it was.
C19_WritePayloadAtStart ==
    (op = "write_payload" /\ arg.boxx.kind = "PlaceholderDataBox"
        /\ arg.to_stream.pos = 0) =>
        /\ ~result.ok
        /\ to_stream = arg.to_stream
        /\ pbox_offset = arg.pbox_offset

C19_Witness ==
    /\ op = "write_payload"
    /\ arg.boxx.kind = "PlaceholderDataBox"
    /\ arg.to_stream.pos = 0
    /\ ~result.ok
    /\ pbox_offset[arg.boxx.id] = None

\* C20: a failing replace_payload changes nothing.  With a payload longer
\* than the reserved size it fails with the 'larger than reserved capacity'
\* error; with a payload that fits, on a placeholder that was never written,
\* it fails with the 'no offset recorded' error, which is another one.  Either
\* way the sink (its bytes, its length) and the recorded offsets are as
\* before.
C20_FailedReplaceChangesNothing ==
    op = "replace_payload" =>
        /\ Len(arg.payload) > Number(arg.boxx.size) =>
              /\ ~result.ok
              /\ result.kind = "replace_payload: payload is larger than reserved capacity"
        /\ (Len(arg.payload) <= Number(arg.boxx.size) /\ arg.pbox_offset[arg.boxx.id] = None) =>
              /\ ~result.ok
              /\ result.kind = "replace_payload: no offset recorded; call write_jumbf() first"
        /\ ~result.ok =>
              /\ to_stream.bytes = arg.to_stream.bytes
              /\ pbox_offset = arg.pbox_offset

\* A payload too long for a placeholder that was written into a sink.
C20_Witness ==
    /\ op = "replace_payload"
    /\ ~result.ok
    /\ arg.pbox_offset[arg.boxx.id].some
    /\ Len(arg.payload) > Number(arg.boxx.size)
    /\ Len(to_stream.bytes) > 0

\* The decoded description box has the fields the builder was given.
DescMatches(buf, desc, given) ==
    /\ Bytes(buf, desc.uuid) = given.uuid
    /\ desc.label.some = given.label.some
    /\ given.label.some => Bytes(buf, desc.label.v) = given.label.v
    /\ desc.requestable = given.requestable
    /\ desc.id = given.id
    /\ desc.hash.some = given.hash.some
    /\ given.hash.some => Bytes(buf, desc.hash.v) = given.hash.v
    /\ desc.private.some = given.private.some
    /\ given.private.some =>
          /\ desc.private.v.tbox = TypeOf(given.private.v)
          /\ Bytes(buf, desc.private.v.data) = PayloadBytes(given.private.v)

\* The decoded super box has the description fields of the builder and its
\* children: as many, in the same order, of the same kinds, types and payloads.
RECURSIVE Matches(_, _, _)
Matches(buf, sbox, given) ==
    /\ DescMatches(buf, sbox.desc, given.desc)
    /\ Len(sbox.child_boxes) = Len(given.child_boxes)
    /\ \A k \in 1..Len(given.child_boxes) :
          LET c == sbox.child_boxes[k]
              g == given.child_boxes[k].boxx
          IN  IF g.kind = "SuperBoxBuilder"
              THEN c.variant = "SuperBox" /\ Matches(buf, c.sbox, g)
              ELSE /\ c.variant = "DataBox"
                   /\ c.dbox.tbox = TypeOf(g)
                   /\ Bytes(buf, c.dbox.data) = PayloadBytes(g)

EmittedDecoded == SuperBox_from_source(Emitted, Whole(Emitted))

\* C15: round trip builder -> decoder.  For every SuperBoxBuilder value (any
\* label, requestable or not, or none; optional id, hash and private data
\* box; any ordered list of children that are DataBoxBuilder,
\* PlaceholderDataBox or nested SuperBoxBuilder), decoding the bytes
\* write_jumbf emitted succeeds with an empty remainder and gives a SuperBox
\* with the configured description fields and with children of the same
\* order, kinds, types and payload bytes.
C15_RoundTrip ==
    (Wrote("write_jumbf") /\ arg.boxx.kind = "SuperBoxBuilder") =>
        /\ EmittedDecoded.ok
        /\ EmittedDecoded.rem.len = 0
        /\ Matches(Emitted, EmittedDecoded.sbox, arg.boxx)

\* --- malformed boxes and the depth limit ---

\* Every box of the range can be read, one after the other, to its end.
RECURSIVE WalkOk(_)
WalkOk(range) ==
    range.len = 0
    \/ /\ DataBox_from_source(input, range).ok
       /\ WalkOk(DataBox_from_source(input, range).rem)

\* The boxes of the range that can be read, one after the other.
RECURSIVE BoxesAt(_)
BoxesAt(range) ==
    IF range.len = 0 \/ ~DataBox_from_source(input, range).ok THEN {}
    ELSE {DataBox_from_source(input, range).box}
         \cup BoxesAt(DataBox_from_source(input, range).rem)

\* What follows the first box of the payload of boxx.
AfterDesc(boxx) == DataBox_from_source(input, boxx.data).rem

\* Something in the byte range of the 'jumb' box boxx is malformed, in boxx
\* or in a 'jumb' box at most d levels below it: a box that cannot be read
\* (reserved or too large length field, truncated), a first box that is no
\* valid description box.
RECURSIVE Malformed(_, _)
Malformed(boxx, d) ==
    \/ ~DataBox_from_source(input, boxx.data).ok
    \/ ~DescriptionBox_from_box(input, DataBox_from_source(input, boxx.data).box).ok
    \/ ~WalkOk(AfterDesc(boxx))
    \/ /\ d > 0
       /\ \E c \in BoxesAt(AfterDesc(boxx)) :
             c.tbox = SUPER_BOX_TYPE /\ Malformed(c, d - 1)

\* No input nests more levels than it has bytes.
Levels(d) == IF d > Len(input) THEN Len(input) ELSE d

JumbGiven == HasOuterBox /\ OuterType = SUPER_BOX_TYPE

\* As stated: a malformed box anywhere in the byte range, at whatever depth,
\* makes the decode fail, with every depth limit.
C24_AllOrNothingAtAnyDepth ==
    (JumbGiven /\ Malformed(OuterBox, Len(input))) => ~result.ok

\* C24: all-or-nothing super-box decoding.  If any box inside a super box's
\* byte range, in the super box or in a nested 'jumb' box that the depth
\* limit lets the decoder resolve (all of them with the unbounded entry
\* points), is malformed (reserved or too-large length field, truncated box,
\* nested 'jumb' box without a valid description box, invalid
\* description-box field), decoding the containing super box returns an error
\* and no SuperBox; a SuperBox assembled from only the well-formed parts is
\* never returned.  A 'jumb' box below the depth limit is kept as an opaque
\* DataBox and what it holds is not looked at.
C24_AllOrNothing ==
    JumbGiven => (result.ok <=> ~Malformed(OuterBox, Levels(depth_limit)))

\* Decoded with depth limit 1, a super box whose own boxes are well-formed
\* and whose nested super box holds a malformed box is refused.
C24_Witness ==
    /\ op = "SuperBox::from_source_with_depth_limit"
    /\ depth_limit = 1
    /\ JumbGiven
    /\ ~Malformed(OuterBox, 0)
    /\ Malformed(OuterBox, 1)
    /\ ~result.ok

\* The longest chain of ChildBox::SuperBox values below sbox.
RECURSIVE Height(_)
Height(sbox) ==
    LET below == {1 + Height(sbox.child_boxes[k].sbox)
                    : k \in {j \in 1..Len(sbox.child_boxes)
                               : sbox.child_boxes[j].variant = "SuperBox"}}
    IN  IF below = {} THEN 0 ELSE CHOOSE h \in below : \A g \in below : g <= h

\* C26: depth bound.  In every SuperBox returned by decoding with depth
\* limit d, no chain of nested ChildBox::SuperBox values below the root is
\* longer than d (with d = 0 the root has no SuperBox child), whatever the
\* nesting depth of the input.
C26_DepthBound ==
    SuperBoxDecoded => Height(result.sbox) <= depth_limit

\* Decoded with depth limit 1, an input that nests two levels: the result
\* nests one level and keeps a 'jumb' box as a DataBox below it.
C26_Witness ==
    /\ C9_Witness
    /\ Height(result.sbox) = 1
    /\ DecodedUnbounded.ok
    /\ Height(DecodedUnbounded.sbox) = 2

\* C27: decode success is monotone in the depth limit.  If decoding an input
\* with depth limit k + 1 succeeds, decoding it with depth limit k, and with
\* every smaller limit, succeeds too.
C27_MonotoneInDepthLimit ==
    (FromSource /\ result.ok) =>
        \A k \in 0..MaxDepthLimit :
            k < depth_limit =>
                SuperBox_from_source_with_depth_limit(input, arg, k).ok

\* An input that nests two levels decodes with depth limit 2; with limit 0
\* its nested super boxes are left as DataBox.
C27_Witness ==
    /\ op = "SuperBox::from_source_with_depth_limit"
    /\ depth_limit = 2
    /\ result.ok
    /\ Height(result.sbox) = 2
    /\ Height(SuperBox_from_source_with_depth_limit(input, arg, 0).sbox) = 0

\* --- patching a placeholder ---

Patched == Wrote("replace_payload")
\* The offset replace_payload found recorded, the size reserved, the payload.
PatchOffset == arg.pbox_offset[arg.boxx.id].v
PatchSize == Number(arg.boxx.size)
\* The reserved range as it is after the call.
ReservedRange == SubSeq(to_stream.bytes, PatchOffset + 1, PatchOffset + PatchSize)

\* C21: placeholder patch law (frame).  After a container holding a
\* placeholder of size N has been written to a sink, every successful
\* replace_payload on that sink (payload of length <= N), the first or any
\* later one, leaves the sink's length as it is and every byte outside the
\* reserved range [offset, offset + N) as it is; the payload goes to the
\* range starting at offset, and the offset stays the same for the next call.
C21_PatchFrame ==
    Patched =>
        /\ Len(arg.payload) <= PatchSize
        /\ Len(to_stream.bytes) = Len(arg.to_stream.bytes)
        /\ PatchOffset + PatchSize <= Len(to_stream.bytes)
        /\ \A k \in 1..Len(to_stream.bytes) :
              (k <= PatchOffset \/ k > PatchOffset + PatchSize) =>
                  to_stream.bytes[k] = arg.to_stream.bytes[k]
        /\ SubSeq(to_stream.bytes, PatchOffset + 1, PatchOffset + Len(arg.payload))
              = arg.payload
        /\ pbox_offset = arg.pbox_offset

\* A placeholder between the description box and a sibling of a written super
\* box is patched a second time.
C21_Witness ==
    /\ Patched
    /\ Len(arg.payload) > 0
    /\ PatchOffset > 8
    /\ PatchOffset + PatchSize < Len(to_stream.bytes)
    /\ root_box.kind = "SuperBoxBuilder"
    /\ \E k \in 1..PatchSize : arg.to_stream.bytes[PatchOffset + k] # 0

\* C22: trailing zero padding.  After every successful replace_payload(sink,
\* p) with len(p) < N on a written placeholder of size N, the first patch or
\* any later one, the reserved range holds p in its first len(p) bytes and
\* zero bytes in the remaining N - len(p) bytes.
C22_TrailingZeroPadding ==
    (Patched /\ Len(arg.payload) < PatchSize) =>
        ReservedRange = arg.payload \o zeros(PatchSize - Len(arg.payload))

\* The recorded offset of a placeholder, once there, stays.
C23_OffsetStays ==
    \A pbox \in Placeholders :
        pbox_offset[pbox.id].some => pbox_offset'[pbox.id] = pbox_offset[pbox.id]

\* C23: two-phase placeholder state.  The recorded offset goes from None to
\* Some(O) once, on the first successful write_payload; once it is Some(O) no
\* later operation (a further write_payload / write_jumbf of the same builder,
\* any replace_payload) changes it, and every later replace_payload seeks to
\* that same O.
C23_TwoPhaseState == [][C23_OffsetStays]_vars

\* C30: a successful replace_payload(sink, p) leaves the sink's position at
\* offset + len(p), not where it was before the call; the next write to the
\* sink without a seek puts its bytes there.
C30_PositionAfterPatch ==
    Patched => to_stream.pos = PatchOffset + Len(arg.payload)

C30_NextWrite ==
    (op = "replace_payload" /\ result.ok /\ op' = "write_jumbf" /\ result'.ok) =>
        /\ arg'.to_stream.pos = PatchOffset + Len(arg.payload)
        /\ SubSeq(to_stream'.bytes, PatchOffset + Len(arg.payload) + 1, to_stream'.pos)
              = Wire(root_box)

C30_PositionAfterReplace == []C30_PositionAfterPatch /\ [][C30_NextWrite]_vars

\* A patch shorter than the reservation, of a placeholder that is not the
\* last thing in the sink, made while the sink was at its end; and a box
\* written after it.
C30_Witness ==
    /\ op = "write_jumbf"
    /\ result.ok
    /\ arg.to_stream.pos < Len(arg.to_stream.bytes)
    /\ \E pbox \in Placeholders :
          /\ arg.pbox_offset[pbox.id].some
          /\ arg.to_stream.pos > arg.pbox_offset[pbox.id].v
          /\ arg.to_stream.pos < arg.pbox_offset[pbox.id].v + Number(pbox.size)

\* --- the size pass ---

Sized == op \in {"payload_size", "jumbf_size"}

\* A size is asked for, or a write fails while it computes the size: the sink
\* and the offsets are as before.
C28_SizeOnly ==
    /\ Sized => (to_stream = arg.to_stream /\ pbox_offset = arg.pbox_offset)
    /\ (op \in {"write_jumbf", "write_payload"} /\ ~result.ok) =>
          (to_stream = arg.to_stream /\ pbox_offset = arg.pbox_offset)

\* An offset changes in a write only.
C28_OffsetsChange ==
    pbox_offset' # pbox_offset => op' \in {"write_jumbf", "write_payload"}

\* C28: the size pass has no side effects.  payload_size / jumbf_size of any
\* tree of SuperBoxBuilder, DataBoxBuilder and PlaceholderDataBox, the
\* counting-sink pass for the description box and its private box included,
\* never writes to the caller's sink and never sets or changes a
\* PlaceholderDataBox's recorded offset; an offset changes only while
\* write_payload runs against the caller's sink.
C28_SizePassNoSideEffects == []C28_SizeOnly /\ [][C28_OffsetsChange]_vars

\* The size of a builder with a placeholder as child and one as private box
\* is asked for (the counting pass meets the private placeholder), behind
\* bytes in the sink.
C28_Witness ==
    /\ Sized
    /\ arg.boxx.kind = "SuperBoxBuilder"
    /\ arg.boxx.desc.private.some
    /\ arg.boxx.desc.private.v.kind = "PlaceholderDataBox"
    /\ Len(arg.boxx.child_boxes) > 0
    /\ Len(to_stream.bytes) > 0

\* --- the toggle byte ---

ToggleWritten == Emitted[8 + 8 + 16 + 1]

\* The toggle byte of a written super box.
C29_Toggles ==
    (Wrote("write_jumbf") /\ arg.boxx.kind = "SuperBoxBuilder") =>
        /\ Bit(ToggleWritten, 0) => Bit(ToggleWritten, 1)
        /\ Bit(ToggleWritten, 0) <=> arg.boxx.desc.requestable
        /\ Bit(ToggleWritten, 1) <=> arg.boxx.desc.label.some
        /\ Bit(ToggleWritten, 2) <=> arg.boxx.desc.id.some
        /\ Bit(ToggleWritten, 3) <=> arg.boxx.desc.hash.some
        /\ Bit(ToggleWritten, 4) <=> arg.boxx.desc.private.some
        /\ ToggleWritten < 32

\* What a configuration call does to the fields of the description box: its
\* own field is set, the other ones stay; `requestable` is that of the last
\* set_label / set_non_requestable_label.
C29_Calls ==
    op' = "SuperBoxBuilder::configure" =>
        CASE arg'.call = "set_label" ->
                root_box'.desc = [root_box.desc EXCEPT !.label = Some(arg'.given),
                                                       !.requestable = TRUE]
          [] arg'.call = "set_non_requestable_label" ->
                root_box'.desc = [root_box.desc EXCEPT !.label = Some(arg'.given),
                                                       !.requestable = FALSE]
          [] arg'.call = "set_id" ->
                root_box'.desc = [root_box.desc EXCEPT !.id = Some(arg'.given)]
          [] arg'.call = "set_sha256_hash" ->
                root_box'.desc = [root_box.desc EXCEPT !.hash = Some(arg'.given)]
          [] arg'.call = "set_private_box" ->
                root_box'.desc = [root_box.desc EXCEPT !.private = Some(arg'.given)]
          [] arg'.call \in {"add_child_box", "add_borrowed_child_box"} ->
                root_box'.desc = root_box.desc
          [] OTHER -> root_box'.desc = DescriptionBoxBuilder_new(UUID)

\* C29: builder toggle invariant.  After any sequence of configuration calls
\* on a SuperBoxBuilder, the toggle byte written for its description box has
\* bit 0x01 set only if bit 0x02 is set, has each of 0x02/0x04/0x08/0x10 set
\* exactly when the field was set, has none of the reserved bits
\* 0x20/0x40/0x80 set, and has bit 0x01 as the last of set_label /
\* set_non_requestable_label left it.
C29_ToggleInvariant == []C29_Toggles /\ [][C29_Calls]_vars

\* set_label and then set_non_requestable_label on a builder that is written.
C29_Witness ==
    /\ Wrote("write_jumbf")
    /\ arg.boxx.kind = "SuperBoxBuilder"
    /\ arg.boxx.desc.label.some
    /\ ~arg.boxx.desc.requestable
    /\ ToggleWritten = 2

\* --- sizes beyond the 32-bit length field ---

\* payload_size() of a builder value, from the format.
RECURSIVE PayloadSizeOf(_)
RECURSIVE SizeOfChildren(_, _)
SizeOfChildren(child_boxes, k) ==
    IF k > Len(child_boxes) THEN usize_of(0)
    ELSE usize_add(usize_add(PayloadSizeOf(child_boxes[k].boxx), usize_of(8)),
                   SizeOfChildren(child_boxes, k + 1))

PayloadSizeOf(boxx) ==
    CASE boxx.kind = "DataBoxBuilder" -> usize_of(Len(boxx.data))
      [] boxx.kind = "PlaceholderDataBox" -> boxx.size
      [] boxx.kind = "SuperBoxBuilder" ->
            usize_add(usize_add(PayloadSizeOf(boxx.desc), usize_of(8)),
                      SizeOfChildren(boxx.child_boxes, 1))
      [] OTHER ->
            usize_add(usize_of(17 + (IF boxx.label.some THEN Len(boxx.label.v) + 1 ELSE 0)
                                  + (IF boxx.id.some THEN 4 ELSE 0)
                                  + (IF boxx.hash.some THEN 32 ELSE 0)),
                      IF boxx.private.some
                      THEN usize_add(PayloadSizeOf(boxx.private.v), usize_of(8))
                      ELSE usize_of(0))

\* 0xfffffff7, and the four bytes of 0xffffffff.
LargestPayload == [hi |-> 65535, lo |-> 65527]
LargestLengthField == <<255, 255, 255, 255>>

\* boxx, or a child at any depth or private box of it, has a payload_size()
\* above 0xfffffff7.
RECURSIVE Oversized(_)
Oversized(boxx) ==
    \/ usize_gt(PayloadSizeOf(boxx), LargestPayload)
    \/ /\ boxx.kind = "SuperBoxBuilder"
       /\ \/ \E k \in 1..Len(boxx.child_boxes) : Oversized(boxx.child_boxes[k].boxx)
          \/ boxx.desc.private.some /\ Oversized(boxx.desc.private.v)

\* C25: no silent truncation of the 32-bit length.  For every box whose
\* payload_size() exceeds 0xFFFFFFF7, write_jumbf fails and writes no byte to
\* the sink, also when the box is a child or the private box of a
\* SuperBoxBuilder being written, and so does asking for its jumbf_size;
\* whenever write_jumbf writes a length field, its value is payload_size() + 8
\* and not that modulo 2^32; the largest payload taken, 0xFFFFFFF7, has the
\* length field 0xFFFFFFFF.
C25_NoSilentTruncation ==
    /\ (op \in {"write_jumbf", "jumbf_size"} /\ Oversized(arg.boxx)) =>
          /\ ~result.ok
          /\ to_stream = arg.to_stream
          /\ pbox_offset = arg.pbox_offset
    /\ Wrote("write_jumbf") =>
          /\ ~Oversized(arg.boxx)
          /\ SubSeq(Emitted, 1, 4) = be32_bytes(Number(PayloadSizeOf(arg.boxx)) + 8)
          /\ BigEndian(SubSeq(Emitted, 1, 4)) = Len(Emitted)
    /\ op \in {"write_jumbf", "jumbf_size"} =>
          /\ jumbf_size_from_payload_size(LargestPayload, to_stream, pbox_offset).ok
          /\ size_slice(jumbf_size_from_payload_size(
                            LargestPayload, to_stream, pbox_offset).v)
                = LargestLengthField
          /\ ~jumbf_size_from_payload_size(
                  usize_add(LargestPayload, usize_of(1)), to_stream, pbox_offset).ok

\* A super box whose two children are each within the limit and together
\* beyond it is refused, behind bytes the sink holds.
C25_Witness ==
    /\ op = "write_jumbf"
    /\ arg.boxx.kind = "SuperBoxBuilder"
    /\ Len(arg.boxx.child_boxes) = 2
    /\ \A k \in 1..2 : ~Oversized(arg.boxx.child_boxes[k].boxx)
    /\ Oversized(arg.boxx)
    /\ ~result.ok
    /\ Len(to_stream.bytes) > 0

====
